---- MODULE Spec2Model ----
(***************************************************************************)
(* The plugin manager of cogs/plugin.py (class Plugin) and its near copy   *)
(* cogs/vplugins.py (class vPlugins): startup pass, install, remove,       *)
(* update, list loaded, registry refresh.                                  *)
(*                                                                         *)
(* Text is a sequence of atoms: "/", "@", "-", "." and blobs of other      *)
(* characters ("u", "master", ".py").  The regular expressions of          *)
(* from_string only tell "/" and "@" from everything else, so an atom      *)
(* behaves as one character for them.                                      *)
(*                                                                         *)
(* The asyncio loop runs one task at a time and switches only at an await  *)
(* that suspends, so every action is the code between two suspensions.     *)
(***************************************************************************)
EXTENDS Integers, Sequences, FiniteSets, TLC

\* user commands that may be invoked in one behaviour
MaxOps == 2

\* atoms in a text that is parsed into a plugin reference
MaxLen == 7

---------------------------------------------------------------------------
\* Plugina / vPlugin: the plugin reference

NoneStr == <<>>
Master == <<"master">>

\* Plugina.__init__: branch None becomes "master"
Plugina(user, repo, name, branch) ==
    [user |-> user, repo |-> repo, name |-> name,
     branch |-> IF branch = NoneStr THEN Master ELSE branch]

\* stands for "no plugin" (None returned, InvalidPluginError raised)
NoPlugin == [user |-> <<>>, repo |-> <<>>, name |-> <<>>, branch |-> <<>>]

\* Plugina.__str__
Plugina_str(p) ==
    p.user \o <<"/">> \o p.repo \o <<"/">> \o p.name \o <<"@">> \o p.branch

\* Plugina.__eq__: the strings are compared
Plugina_eq(p, q) == Plugina_str(p) = Plugina_str(q)

\* Plugina.__hash__: hash((user, repo, name, branch)); the tuple stands for
\* its hash, so two references have the same hash when their fields agree
Plugina_hash(p) == <<p.user, p.repo, p.name, p.branch>>

\* Plugina.ext_string; the two cogs differ in the package prefix
ext_string(p, c) ==
    (IF c = "Plugin" THEN <<"plugins">> ELSE <<"vplugins">>)
        \o <<".">> \o p.user \o <<".">> \o p.repo \o <<".">> \o p.name
        \o <<"-">> \o p.branch \o <<".">> \o p.name

\* Plugina.abs_path (relative to the bot's directory)
abs_path(p, c) ==
    (IF c = "Plugin" THEN <<"plugins">> ELSE <<"vplugins">>)
        \o <<"/">> \o p.user \o <<"/">> \o p.repo \o <<"/">> \o p.name
        \o <<"-">> \o p.branch

\* Plugina.cache_path
cache_path(p, c) ==
    (IF c = "Plugin" THEN <<"temp", "/", "plugins-cache", "/">>
                     ELSE <<"vtemp", "/", "vplugins-cache", "/">>)
        \o p.user \o <<"-">> \o p.repo \o <<"-">> \o p.branch \o <<".zip">>

\* The ways "^(.+?)/(.+?)/(.+?)(?:@(.+?))?$" (strict: "...@(.+?)$") can cut s:
\* <<i, j, k>> with "/" at i and at j, the name ending at k, and either the
\* text ending at k (no branch, lenient only) or "@" at k+1 and a non-empty
\* branch after it.
RegexSplits(s, strict) ==
    LET n == Len(s) IN
    { t \in (1..n) \X (1..n) \X (1..n) :
        /\ t[1] >= 2 /\ s[t[1]] = "/"
        /\ t[2] >= t[1] + 2 /\ s[t[2]] = "/"
        /\ t[3] >= t[2] + 1
        /\ \/ ~strict /\ t[3] = n
           \/ t[3] + 2 <= n /\ s[t[3] + 1] = "@" }

\* Lazy groups with backtracking: the first match found is the cut that is
\* least in the order (user length, repo length, name length).
LexMin(S) ==
    CHOOSE t \in S : \A u \in S :
        \/ t[1] < u[1]
        \/ t[1] = u[1] /\ t[2] < u[2]
        \/ t[1] = u[1] /\ t[2] = u[2] /\ t[3] <= u[3]

\* Plugina.from_string
from_string(s, strict) ==
    LET S == RegexSplits(s, strict) IN
    IF S = {} THEN NoPlugin
    ELSE LET t == LexMin(S)
             n == Len(s)
         IN  Plugina(SubSeq(s, 1, t[1] - 1),
                     SubSeq(s, t[1] + 1, t[2] - 1),
                     SubSeq(s, t[2] + 1, t[3]),
                     IF t[3] = n THEN NoneStr ELSE SubSeq(s, t[3] + 2, n))

---------------------------------------------------------------------------
\* The strings, archives and registry documents the model draws inputs from

TokShortP == <<"p">>
TokShortQ == <<"q">>
TokPLegacy == <<"u", "/", "r", "/", "p">>
TokP == <<"u", "/", "r", "/", "p", "@", "master">>
TokQ == <<"u", "/", "r", "/", "q", "@", "master">>
TokBad == <<"u", "/", "q">>

\* what a user may type after "plugins add / remove / update"
UserTokens == {TokShortP, TokShortQ, TokPLegacy}

\* bot.config["plugins"] at process start
InitConfigs == {<<>>, <<TokP, TokBad, TokQ>>, <<TokPLegacy, TokBad>>}

\* self.bot.cogs: the names of the cogs the bot has registered
BuiltinCogs == {<<"Modmail">>, <<"Utilita">>, <<"Plugin">>, <<"vPlugins">>}

\* bot.version and the bot_version values of registry entries, parsed
HostVersion == <<3, 4>>
NoVersion == <<>>

\* self.bot.version < parse_version(required_version)
version_lt(a, b) == a[1] < b[1] \/ (a[1] = b[1] /\ a[2] < b[2])

RegEntry(repository, branch, bot_version) ==
    [repository |-> repository, branch |-> branch, bot_version |-> bot_version]

\* the registry document: "p" asks for a newer bot, "q" for this very version
RegDoc ==
    [n \in {TokShortP, TokShortQ} |->
        RegEntry(<<"u", "/", "r">>, NoneStr,
                 IF n = TokShortP THEN <<3, 5>> ELSE <<3, 4>>)]
RegEmpty == [n \in {} |-> RegEntry(<<>>, NoneStr, NoVersion)]

\* documents served at the registry URLs
RegistryDocs == {RegDoc}

ZipRoot == <<"r", "-", "master">>
ReqTxt == <<"requirements.txt">>
FileEntry(parts) == [parts |-> parts, is_dir |-> FALSE]
DirEntry(parts) == [parts |-> parts, is_dir |-> TRUE]

\* the repository with plugin p (which has requirements) and plugin q
ArchReq ==
    { DirEntry(<<ZipRoot>>),
      FileEntry(<<ZipRoot, <<"README">>>>),
      DirEntry(<<ZipRoot, <<"p">>>>),
      FileEntry(<<ZipRoot, <<"p">>, <<"p", ".py">>>>),
      FileEntry(<<ZipRoot, <<"p">>, ReqTxt>>),
      FileEntry(<<ZipRoot, <<"q">>, <<"q", ".py">>>>) }
\* the same repository after p.py was renamed
ArchNoEntry ==
    { FileEntry(<<ZipRoot, <<"p">>, <<"helper", ".py">>>>),
      FileEntry(<<ZipRoot, <<"q">>, <<"q", ".py">>>>) }

ZipBody(entries) == [zip |-> TRUE, entries |-> entries]
\* a body zipfile.ZipFile cannot open (an error page, a truncated download)
NotAZip == [zip |-> FALSE, entries |-> {}]

\* outcomes of session.get(plugin.url) + resp.read()
HttpResponses ==
    {[ok |-> FALSE, body |-> NotAZip], [ok |-> TRUE, body |-> NotAZip]}
        \cup {[ok |-> TRUE, body |-> ZipBody(a)] : a \in {ArchReq, ArchNoEntry}}

\* outcomes of proc.communicate() of the pip subprocess
PipResults == [stderr : BOOLEAN, returncode : {0, 1}]

---------------------------------------------------------------------------
VARIABLES
    cog,             \* "Plugin" (cogs/plugin.py) or "vPlugins" (cogs/vplugins.py)
    enable_plugins,  \* bot.config["enable_plugins"]
    connected,       \* bot.wait_for_connected() returns
    registry,        \* self.registry
    config,          \* bot.config["plugins"]
    persisted,       \* the plugin list last written by bot.config.update()
    loaded_plugins,  \* self.loaded_plugins
    extensions,      \* bot.extensions: the code units loaded in the process
    dirs,            \* install directories on disk: path -> entries below it
    cache,           \* cache files on disk: path -> bytes
    ready,           \* self._ready_event.is_set()
    st,              \* the initial_load_plugins task
    op,              \* the command invocations in flight, by slot
    opsLeft,         \* commands that may still be invoked
    solo,            \* the user waits for a command to finish before the next
    ref,             \* two plugin references under comparison and re-parsing
    call             \* a call of download_plugin or load_plugin by itself

vars == <<cog, enable_plugins, connected, registry, config, persisted,
          loaded_plugins, extensions, dirs, cache, ready, st, op, opsLeft,
          solo, ref, call>>

Slots == {"s1", "s2"}

\* the mutable state the helpers below work on
World ==
    [config |-> config, persisted |-> persisted, loaded |-> loaded_plugins,
     exts |-> extensions, dirs |-> dirs, cache |-> cache]

SetWorld(w) ==
    /\ config' = w.config
    /\ persisted' = w.persisted
    /\ loaded_plugins' = w.loaded
    /\ extensions' = w.exts
    /\ dirs' = w.dirs
    /\ cache' = w.cache

\* an empty disk
NoFiles == [x \in {} |-> {}]

Put(f, k, v) == [x \in DOMAIN f \cup {k} |-> IF x = k THEN v ELSE f[x]]
Drop(f, k) == [x \in DOMAIN f \ {k} |-> f[x]]

\* list.remove(x): the first occurrence
RECURSIVE list_remove(_, _)
list_remove(l, x) ==
    IF l = <<>> THEN <<>>
    ELSE IF Head(l) = x THEN Tail(l)
    ELSE <<Head(l)>> \o list_remove(Tail(l), x)

Range(l) == {l[i] : i \in DOMAIN l}
Count(l, x) == Cardinality({i \in DOMAIN l : l[i] = x})

---------------------------------------------------------------------------
\* download_plugin

\* every entry below the root of the archive is taken
Extracted_any_plugin(entries, p) ==
    { [rel |-> SubSeq(e.parts, 3, Len(e.parts)), is_dir |-> e.is_dir] :
        e \in {x \in entries : Len(x.parts) >= 3} }

\* the zipfile loop: entries with at least three parts whose second part is
\* the plugin name, cut to the parts after it
Extracted(entries, p) ==
    { [rel |-> SubSeq(e.parts, 3, Len(e.parts)), is_dir |-> e.is_dir] :
        e \in {x \in entries : Len(x.parts) >= 3 /\ x.parts[2] = p.name} }

\* zipfile.ZipFile(plugin_io) and the extraction into plugin.abs_path
extract_zip(w, p, body, c) ==
    IF ~body.zip THEN [w |-> w, status |-> "raise"]
    ELSE LET d == abs_path(p, c)
             old == IF d \in DOMAIN w.dirs THEN w.dirs[d] ELSE {}
             new == Extracted(body.entries, p)
         IN  IF d \notin DOMAIN w.dirs /\ new = {}
             THEN [w |-> w, status |-> "return"]
             ELSE [w |-> [w EXCEPT !.dirs = Put(@, d, old \cup new)],
                   status |-> "return"]

\* the cache file is not looked for
download_begin_uncached(w, p, force, c) ==
    LET d == abs_path(p, c)
    IN  IF d \in DOMAIN w.dirs /\ ~force THEN [w |-> w, status |-> "return"]
        ELSE [w |-> IF d \in DOMAIN w.dirs THEN w
                    ELSE [w EXCEPT !.dirs = Put(@, d, {})],
              status |-> "await"]

\* the install directory is not looked for
download_begin_unchecked(w, p, force, c) ==
    LET d == abs_path(p, c)
        cp == cache_path(p, c)
        w1 == IF d \in DOMAIN w.dirs THEN w
              ELSE [w EXCEPT !.dirs = Put(@, d, {})]
    IN  IF cp \in DOMAIN w1.cache /\ ~force
        THEN extract_zip(w1, p, w1.cache[cp], c)
        ELSE [w |-> w1, status |-> "await"]

\* download_plugin up to the await of session.get, or to its end when it
\* does not get that far
download_begin(w, p, force, c) ==
    LET d == abs_path(p, c)
        cp == cache_path(p, c)
    IN  IF d \in DOMAIN w.dirs /\ ~force THEN [w |-> w, status |-> "return"]
        ELSE LET w1 == IF d \in DOMAIN w.dirs THEN w
                       ELSE [w EXCEPT !.dirs = Put(@, d, {})]
             IN  IF cp \in DOMAIN w1.cache /\ ~force
                 THEN extract_zip(w1, p, w1.cache[cp], c)
                 ELSE [w |-> w1, status |-> "await"]

\* the bytes are not written to the cache file
download_end_unwritten(w, p, resp, c) ==
    IF ~resp.ok THEN [w |-> w, status |-> "raise"]
    ELSE extract_zip(w, p, resp.body, c)

\* a failed request taken for an empty archive
download_end_swallowed(w, p, resp, c) ==
    IF ~resp.ok THEN [w |-> w, status |-> "return"]
    ELSE extract_zip([w EXCEPT !.cache = Put(@, cache_path(p, c), resp.body)],
                     p, resp.body, c)

\* download_plugin from the response on
download_end(w, p, resp, c) ==
    IF ~resp.ok THEN [w |-> w, status |-> "raise"]
    ELSE extract_zip([w EXCEPT !.cache = Put(@, cache_path(p, c), resp.body)],
                     p, resp.body, c)

---------------------------------------------------------------------------
\* load_plugin

\* Path.exists() of a path below the install directory
path_exists(w, d, rel) ==
    /\ d \in DOMAIN w.dirs
    /\ \E e \in w.dirs[d] :
          Len(e.rel) >= Len(rel) /\ SubSeq(e.rel, 1, Len(rel)) = rel

\* the plugin is put in the loaded set before its extension is loaded
load_extension_eager(w, p, ok, c) ==
    LET ext == ext_string(p, c) IN
    IF \/ ext \in w.exts
       \/ ~path_exists(w, abs_path(p, c), <<p.name \o <<".py">>>>)
       \/ ~ok
    THEN [w |-> [w EXCEPT !.loaded = @ \cup {p}], status |-> "raise"]
    ELSE [w |-> [w EXCEPT !.exts = @ \cup {ext}, !.loaded = @ \cup {p}],
          status |-> "return"]

\* bot.load_extension and self.loaded_plugins.add; the module is found when
\* its file is on disk; ok: it imports and its setup() returns
load_extension(w, p, ok, c) ==
    LET ext == ext_string(p, c) IN
    IF \/ ext \in w.exts
       \/ ~path_exists(w, abs_path(p, c), <<p.name \o <<".py">>>>)
       \/ ~ok
    THEN [w |-> w, status |-> "raise"]
    ELSE [w |-> [w EXCEPT !.exts = @ \cup {ext}, !.loaded = @ \cup {p}],
          status |-> "return"]

\* load_plugin up to the await of the pip subprocess, or to its end
load_begin(w, p, ok, c) ==
    LET d == abs_path(p, c) IN
    IF ~path_exists(w, d, <<p.name \o <<".py">>>>)
    THEN [w |-> w, status |-> "raise"]
    ELSE IF path_exists(w, d, <<ReqTxt>>) THEN [w |-> w, status |-> "await"]
    ELSE load_extension(w, p, ok, c)

\* load_plugin from proc.communicate() on; vplugins.py then evaluates
\* os.vpath, which raises AttributeError
load_end(w, p, res, ok, c) ==
    IF res.stderr THEN [w |-> w, status |-> "raise"]
    ELSE IF c = "vPlugins" THEN [w |-> w, status |-> "raise"]
    ELSE load_extension(w, p, ok, c)

\* bot.unload_extension
unload_extension(w, p, c) ==
    LET ext == ext_string(p, c) IN
    IF ext \notin w.exts THEN [w |-> w, status |-> "raise"]
    ELSE [w |-> [w EXCEPT !.exts = @ \ {ext}], status |-> "return"]

---------------------------------------------------------------------------
\* Plugin.__init__

\* no reference has been built
NoRefs == [pc |-> "none", a |-> NoPlugin, b |-> NoPlugin, eq |-> FALSE,
           same_hash |-> FALSE, back |-> NoPlugin, text |-> <<>>,
           strict |-> NoPlugin, lenient |-> NoPlugin]

NoResponse == [ok |-> FALSE, body |-> [zip |-> FALSE, entries |-> {}]]
NoResult == [stderr |-> FALSE, returncode |-> 0]
NoCallBefore == [fn |-> "none", plugin |-> NoPlugin, force |-> FALSE,
                 pc |-> "idle", path |-> "none", gets |-> 0, since |-> {}]

\* neither function has been called
NoCall ==
    [fn |-> "none", plugin |-> NoPlugin, force |-> FALSE, pc |-> "idle",
     path |-> "none", gets |-> 0, got |-> FALSE, resp |-> NoResponse,
     ran |-> FALSE, res |-> NoResult, ok |-> FALSE, n |-> 0,
     prev |-> NoCallBefore, since |-> {}, url |-> "none", answer |-> "none",
     name |-> <<>>, refreshed |-> {}]

NoOutcome == [kind |-> "none", plugin |-> NoPlugin, out |-> "none"]

IdleOp ==
    [kind |-> "none", tok |-> <<>>, plugin |-> NoPlugin, pc |-> "idle",
     out |-> "none", bulk |-> FALSE, idx |-> 0, results |-> <<>>, gets |-> 0,
     n |-> 0, unloaded |-> FALSE, shown |-> {}, fetched |-> FALSE,
     prev |-> NoOutcome]

Init ==
    /\ cog \in {"Plugin", "vPlugins"}
    /\ enable_plugins \in BOOLEAN
    /\ connected = FALSE
    /\ registry = RegEmpty
    /\ config \in InitConfigs
    /\ persisted = config
    /\ loaded_plugins = {}
    /\ extensions = {}
    /\ dirs = NoFiles
    /\ cache = NoFiles
    /\ ready = FALSE
    /\ st = [pc |-> IF enable_plugins THEN "wait" ELSE "off",
             snap0 |-> <<>>, snap |-> <<>>, idx |-> 0, tok |-> <<>>,
             plugin |-> NoPlugin, gets |-> 0, attempted |-> {}]
    /\ op = [s \in Slots |-> IdleOp]
    /\ opsLeft = MaxOps
    /\ solo = TRUE
    /\ ref = NoRefs
    /\ call = NoCall

---------------------------------------------------------------------------
\* populate_registry, populate_vregistry: both assign self.registry; a failed
\* GET or json.loads raises before the assignment

populate_registry ==
    /\ \E doc \in RegistryDocs : registry' = doc
    /\ UNCHANGED <<cog, enable_plugins, connected, config, persisted,
                   loaded_plugins, extensions, dirs, cache, ready, st, op,
                   opsLeft, solo, ref,
                   call>>

populate_vregistry ==
    /\ cog = "Plugin"
    /\ \E doc \in RegistryDocs : registry' = doc
    /\ UNCHANGED <<cog, enable_plugins, connected, config, persisted,
                   loaded_plugins, extensions, dirs, cache, ready, st, op,
                   opsLeft, solo, ref,
                   call>>

\* the bot connects: wait_for_connected() returns from now on
on_connect ==
    /\ ~connected
    /\ connected' = TRUE
    /\ UNCHANGED <<cog, enable_plugins, registry, config, persisted,
                   loaded_plugins, extensions, dirs, cache, ready, st, op,
                   opsLeft, solo, ref,
                   call>>

---------------------------------------------------------------------------
\* initial_load_plugins / initial_load_vplugins

\* plugin.py lines 126-136: the first loop removes every name the strict
\* grammar rejects and appends nothing
RECURSIVE first_loop(_, _)
first_loop(names, cfg) ==
    IF names = <<>> THEN cfg
    ELSE first_loop(Tail(names),
                    IF from_string(Head(names), TRUE) = NoPlugin
                    THEN list_remove(cfg, Head(names))
                    ELSE cfg)

\* download_plugin then load_plugin, from the result dl of the download so
\* far, up to the next suspension: "http", "pip", "return" or "raise"
then_load(dl, p, ok, c) ==
    IF dl.status = "await" THEN [w |-> dl.w, status |-> "http"]
    ELSE IF dl.status = "raise" THEN [w |-> dl.w, status |-> "raise"]
    ELSE LET l == load_begin(dl.w, p, ok, c)
         IN  [w |-> l.w, status |-> IF l.status = "await" THEN "pip" ELSE l.status]

\* without the "except Exception: ... continue" around the two awaits: the
\* exception ends the task
st_after_uncaught(t, status) ==
    IF status \in {"http", "pip"} THEN [t EXCEPT !.pc = status]
    ELSE IF status = "raise" THEN [t EXCEPT !.pc = "failed"]
    ELSE [t EXCEPT !.pc = "entry", !.idx = @ + 1, !.tok = <<>>,
                   !.plugin = NoPlugin]

\* the startup task after a step of one entry that ended in status
st_after(t, status) ==
    IF status \in {"http", "pip"} THEN [t EXCEPT !.pc = status]
    ELSE [t EXCEPT !.pc = "entry", !.idx = @ + 1, !.tok = <<>>,
                   !.plugin = NoPlugin]

\* from wait_for_connected() to the start of the loop that loads
initial_load_plugins ==
    /\ st.pc = "wait"
    /\ connected
    /\ LET cfg == IF cog = "Plugin" THEN first_loop(config, config) ELSE config
       IN  /\ config' = cfg
           /\ st' = [st EXCEPT !.pc = "entry", !.snap0 = config, !.snap = cfg,
                               !.idx = 1]
    /\ UNCHANGED <<cog, enable_plugins, connected, registry, persisted,
                   loaded_plugins, extensions, dirs, cache, ready, op,
                   opsLeft, solo, ref,
                   call>>

\* one turn of the loop: parse, migrate, download_plugin, load_plugin up to
\* the first suspension; after the last entry, self._ready_event.set()
startup_entry(ok) ==
    /\ st.pc = "entry"
    /\ IF st.idx > Len(st.snap)
       THEN /\ ready' = TRUE
            /\ st' = [st EXCEPT !.pc = "persist"]
            /\ UNCHANGED <<config, persisted, loaded_plugins, extensions,
                           dirs, cache>>
       ELSE /\ ready' = ready
            /\ \E name \in {st.snap[st.idx]} :
               \E strict \in {from_string(name, TRUE)},
                  lenient \in {from_string(name, FALSE)} :
               \E plugin \in {IF strict # NoPlugin THEN strict ELSE lenient} :
               \E w \in {[World EXCEPT !.config =
                             IF strict # NoPlugin THEN config
                             ELSE IF lenient = NoPlugin
                             THEN list_remove(config, name)
                             ELSE Append(list_remove(config, name),
                                         Plugina_str(plugin))]} :
                  IF plugin = NoPlugin
                  THEN /\ SetWorld(w)
                       /\ st' = st_after(st, "raise")
                  ELSE \E r \in {then_load(download_begin(w, plugin, FALSE, cog),
                                            plugin, ok, cog)} :
                          /\ SetWorld(r.w)
                          /\ st' = st_after(
                                 [st EXCEPT !.tok = name, !.plugin = plugin,
                                     !.attempted = @ \cup {name},
                                     !.gets = IF r.status = "http" THEN @ + 1 ELSE @],
                                 r.status)
    /\ UNCHANGED <<cog, enable_plugins, connected, registry, op, opsLeft,
                   solo, ref, call>>

\* the archive request of the startup pass answers
startup_http(resp, ok) ==
    /\ st.pc = "http"
    /\ LET r == then_load(download_end(World, st.plugin, resp, cog),
                          st.plugin, ok, cog)
       IN  /\ SetWorld(r.w)
           /\ st' = st_after(st, r.status)
    /\ UNCHANGED <<cog, enable_plugins, connected, registry, ready, op,
                   opsLeft, solo, ref,
                   call>>

\* the pip subprocess of the startup pass exits
startup_pip(res, ok) ==
    /\ st.pc = "pip"
    /\ LET r == load_end(World, st.plugin, res, ok, cog)
       IN  /\ SetWorld(r.w)
           /\ st' = st_after(st, r.status)
    /\ UNCHANGED <<cog, enable_plugins, connected, registry, ready, op,
                   opsLeft, solo, ref,
                   call>>

\* bot.config.update(): the whole plugin list is written
config_update(w) == [w EXCEPT !.persisted = w.config]

\* the config.update() that ends the startup pass
startup_persist ==
    /\ st.pc = "persist"
    /\ SetWorld(config_update(World))
    /\ st' = [st EXCEPT !.pc = "done"]
    /\ UNCHANGED <<cog, enable_plugins, connected, registry, ready, op,
                   opsLeft, solo, ref,
                   call>>

---------------------------------------------------------------------------
\* parse_user_input

\* details["repository"].split("/", maxsplit=1)
split_repository(r) ==
    LET i == CHOOSE k \in 1..Len(r) :
                 r[k] = "/" /\ \A j \in 1..(k - 1) : r[j] # "/"
    IN  <<SubSeq(r, 1, i - 1), SubSeq(r, i + 1, Len(r))>>

\* the comparison turned around
version_too_low_swapped(required_version) ==
    required_version # NoVersion /\ version_lt(required_version, HostVersion)

\* required_version and self.bot.version < parse_version(required_version)
version_too_low(required_version) ==
    required_version # NoVersion /\ version_lt(HostVersion, required_version)

\* parse_user_input once the ready event is set: the registry, else the
\* lenient grammar
resolve(plugin_name, check_version) ==
    IF plugin_name \in DOMAIN registry
    THEN LET details == registry[plugin_name]
             ur == split_repository(details.repository)
         IN  IF check_version /\ version_too_low(details.bot_version)
             THEN [status |-> "VersionTooLow", plugin |-> NoPlugin]
             ELSE [status |-> "ok",
                   plugin |-> Plugina(ur[1], ur[2], plugin_name, details.branch)]
    ELSE LET plugin == from_string(plugin_name, FALSE)
         IN  IF plugin = NoPlugin
             THEN [status |-> "InvalidFormat", plugin |-> NoPlugin]
             ELSE [status |-> "ok", plugin |-> plugin]

\* without the test of the ready event
parse_user_input_ungated(plugin_name, check_version) ==
    resolve(plugin_name, check_version)

parse_user_input(plugin_name, check_version) ==
    IF ~ready THEN [status |-> "StillLoading", plugin |-> NoPlugin]
    ELSE resolve(plugin_name, check_version)

---------------------------------------------------------------------------
\* command invocations

\* what stays of a finished invocation when the next one takes its slot
Summary(o) ==
    IF o.kind = "none" THEN NoOutcome
    ELSE [kind |-> o.kind, plugin |-> o.plugin, out |-> o.out]

\* a command may be invoked in slot s
CanInvoke(s) ==
    /\ opsLeft > 0
    /\ op[s].pc \in {"idle", "done"}
    /\ solo => s = "s1"

Invocation(s, kind, tok) ==
    [IdleOp EXCEPT !.kind = kind, !.tok = tok, !.n = opsLeft,
                   !.prev = Summary(op[s])]

\* the invocation o ends and answers out
Finish(o, out) == [o EXCEPT !.pc = "done", !.out = out]

UnchangedWorld ==
    UNCHANGED <<config, persisted, loaded_plugins, extensions, dirs, cache>>

UnchangedEnv ==
    UNCHANGED <<cog, enable_plugins, connected, registry, ready, st, solo,
                ref, call>>

---------------------------------------------------------------------------
\* plugins_add / vplugins_add

\* the text the user typed is looked up instead of str(plugin)
already_installed_as_typed(plugin, plugin_name) == plugin_name \in Range(config)

\* str(plugin) in self.bot.config["plugins"]
already_installed(plugin, plugin_name) == Plugina_str(plugin) \in Range(config)

\* up to "await ctx.send(embed=embed)" before the download
plugins_add(s, plugin_name) ==
    /\ CanInvoke(s)
    /\ LET o == Invocation(s, "add", plugin_name)
           r == parse_user_input(plugin_name, TRUE)
           found == [o EXCEPT !.plugin = r.plugin]
       IN  op' = [op EXCEPT ![s] =
               IF r.status # "ok" THEN Finish(o, r.status)
               ELSE IF already_installed(r.plugin, plugin_name)
               THEN Finish(found, "AlreadyInstalled")
               ELSE IF r.plugin.name \in BuiltinCogs
               THEN Finish(found, "NameCollision")
               ELSE [found EXCEPT !.pc = "send"]]
    /\ opsLeft' = opsLeft - 1
    /\ UnchangedWorld
    /\ UnchangedEnv

\* download_plugin(plugin, force=True) up to the archive request
add_send(s) ==
    /\ op[s].kind = "add" /\ op[s].pc = "send"
    /\ LET d == download_begin(World, op[s].plugin, TRUE, cog)
       IN  /\ SetWorld(d.w)
           /\ op' = [op EXCEPT ![s] =
                  IF d.status = "await" THEN [@ EXCEPT !.pc = "http", !.gets = @ + 1]
                  ELSE Finish(@, "DownloadFailed")]
    /\ UNCHANGED opsLeft
    /\ UnchangedEnv

\* the request answered with a body that zipfile.ZipFile opens
is_archive(resp) == resp.ok /\ resp.body.zip

\* config["plugins"].append(str(plugin)) left out
add_http_no_append(s, resp) ==
    /\ op[s].kind = "add" /\ op[s].pc = "http"
    /\ LET d == download_end(World, op[s].plugin, resp, cog)
           o == [op[s] EXCEPT !.fetched = is_archive(resp)]
       IN  IF d.status = "raise"
           THEN /\ SetWorld(d.w)
                /\ op' = [op EXCEPT ![s] = Finish(o, "DownloadFailed")]
           ELSE /\ SetWorld(d.w)
                /\ op' = [op EXCEPT ![s] = [o EXCEPT !.pc = "persist"]]
    /\ UNCHANGED opsLeft
    /\ UnchangedEnv

\* config["plugins"] = [str(plugin)] instead of the append
add_http_overwrites(s, resp) ==
    /\ op[s].kind = "add" /\ op[s].pc = "http"
    /\ LET d == download_end(World, op[s].plugin, resp, cog)
           o == [op[s] EXCEPT !.fetched = is_archive(resp)]
       IN  IF d.status = "raise"
           THEN /\ SetWorld(d.w)
                /\ op' = [op EXCEPT ![s] = Finish(o, "DownloadFailed")]
           ELSE /\ SetWorld([d.w EXCEPT !.config = <<Plugina_str(op[s].plugin)>>])
                /\ op' = [op EXCEPT ![s] = [o EXCEPT !.pc = "persist"]]
    /\ UNCHANGED opsLeft
    /\ UnchangedEnv

\* the archive request answers: the rest of download_plugin, then
\* config["plugins"].append up to "await self.bot.config.update()"
add_http(s, resp) ==
    /\ op[s].kind = "add" /\ op[s].pc = "http"
    /\ LET d == download_end(World, op[s].plugin, resp, cog)
           o == [op[s] EXCEPT !.fetched = is_archive(resp)]
       IN  IF d.status = "raise"
           THEN /\ SetWorld(d.w)
                /\ op' = [op EXCEPT ![s] = Finish(o, "DownloadFailed")]
           ELSE /\ SetWorld([d.w EXCEPT !.config =
                                Append(@, Plugina_str(op[s].plugin))])
                /\ op' = [op EXCEPT ![s] = [o EXCEPT !.pc = "persist"]]
    /\ UNCHANGED opsLeft
    /\ UnchangedEnv

\* the answer for a load_plugin that ended in status
add_loaded(o, status) ==
    IF status = "await" THEN [o EXCEPT !.pc = "pip"]
    ELSE IF status = "raise" THEN Finish(o, "LoadFailed")
    ELSE Finish(o, "Installed")

\* config.update() has returned: load_plugin if plugins are enabled
add_persist(s, ok) ==
    /\ op[s].kind = "add" /\ op[s].pc = "persist"
    /\ LET w == config_update(World)
       IN  IF enable_plugins
           THEN LET l == load_begin(w, op[s].plugin, ok, cog)
                IN  /\ SetWorld(l.w)
                    /\ op' = [op EXCEPT ![s] = add_loaded(@, l.status)]
           ELSE /\ SetWorld(w)
                /\ op' = [op EXCEPT ![s] = Finish(@, "InstalledNotLoaded")]
    /\ UNCHANGED opsLeft
    /\ UnchangedEnv

\* the pip subprocess exits: the rest of load_plugin
add_pip(s, res, ok) ==
    /\ op[s].kind = "add" /\ op[s].pc = "pip"
    /\ LET l == load_end(World, op[s].plugin, res, ok, cog)
       IN  /\ SetWorld(l.w)
           /\ op' = [op EXCEPT ![s] = add_loaded(@, l.status)]
    /\ UNCHANGED opsLeft
    /\ UnchangedEnv

---------------------------------------------------------------------------
\* plugins_remove / vplugins_remove

\* without self.loaded_plugins.remove(plugin)
remove_unload_only(w, p, c) == unload_extension(w, p, c).w

\* try: unload_extension; loaded_plugins.remove
\* except (ExtensionNotLoaded, KeyError): warning
remove_unload(w, p, c) ==
    LET u == unload_extension(w, p, c) IN
    IF u.status = "raise" THEN w
    ELSE [u.w EXCEPT !.loaded = @ \ {p}]

\* nothing is deleted
rmtree_nothing(ds, d) == ds

\* shutil.rmtree(plugin.abs_path, onerror=...)
rmtree(ds, d) == Drop(ds, d)

\* up to "await self.bot.config.update()"
plugins_remove(s, plugin_name) ==
    /\ CanInvoke(s)
    /\ LET o == Invocation(s, "remove", plugin_name)
           r == parse_user_input(plugin_name, FALSE)
           found == [o EXCEPT !.plugin = r.plugin]
       IN  IF r.status # "ok"
           THEN /\ op' = [op EXCEPT ![s] = Finish(o, r.status)]
                /\ UnchangedWorld
           ELSE IF Plugina_str(r.plugin) \notin Range(config)
           THEN /\ op' = [op EXCEPT ![s] = Finish(found, "NotInstalled")]
                /\ UnchangedWorld
           ELSE LET w == IF enable_plugins
                         THEN remove_unload(World, r.plugin, cog)
                         ELSE World
                IN  /\ SetWorld([w EXCEPT !.config =
                                    list_remove(@, Plugina_str(r.plugin))])
                    /\ op' = [op EXCEPT ![s] = [found EXCEPT !.pc = "persist"]]
    /\ opsLeft' = opsLeft - 1
    /\ UnchangedEnv

\* config.update() has returned: the install directory is deleted
remove_persist(s) ==
    /\ op[s].kind = "remove" /\ op[s].pc = "persist"
    /\ LET w == config_update(World)
       IN  SetWorld([w EXCEPT !.dirs = rmtree(@, abs_path(op[s].plugin, cog))])
    /\ op' = [op EXCEPT ![s] = Finish(@, "Removed")]
    /\ UNCHANGED opsLeft
    /\ UnchangedEnv

---------------------------------------------------------------------------
\* plugins_update / vplugins_update and update_plugin / update_vplugin

\* update_plugin returns after ctx.send: its answer is kept, and the loop
\* of plugins_update goes on to the next name
report(o, out) ==
    LET o2 == [o EXCEPT !.results =
                   Append(@, [tok |-> o.tok, out |-> out, gets |-> o.gets])]
    IN  IF o.bulk THEN [o2 EXCEPT !.pc = "next", !.idx = @ + 1]
        ELSE Finish(o2, out)

\* an exception leaves update_plugin: nothing in plugins_update catches it,
\* so it ends the command
propagate(o) ==
    Finish([o EXCEPT !.results =
                Append(@, [tok |-> o.tok, out |-> "Error", gets |-> o.gets])],
           "Error")

\* the answer for a load_plugin inside update_plugin that ended in status
update_loaded(o, status) ==
    IF status = "await" THEN [o EXCEPT !.pc = "pip"]
    ELSE IF status = "raise" THEN propagate(o)
    ELSE report(o, "Updated")

\* update_plugin up to "async with ctx.typing()"; in the loop of
\* plugins_update the name is the next one of the live list, and the loop
\* ends when the list has no next one
update_call(o) ==
    IF o.bulk /\ o.idx > Len(config) THEN Finish(o, "Finished")
    ELSE LET plugin_name == IF o.bulk THEN config[o.idx] ELSE o.tok
             r == parse_user_input(plugin_name, TRUE)
             o1 == [o EXCEPT !.tok = plugin_name, !.plugin = r.plugin,
                             !.gets = 0, !.unloaded = FALSE]
         IN  IF r.status # "ok" THEN report(o1, r.status)
             ELSE IF Plugina_str(r.plugin) \notin Range(config)
             THEN report(o1, "NotInstalled")
             ELSE [o1 EXCEPT !.pc = "send"]

\* "plugins update [name]" up to the first suspension; without a name, the
\* loop over config["plugins"]
plugins_update(s, plugin_name) ==
    /\ CanInvoke(s)
    /\ op' = [op EXCEPT ![s] =
           update_call([Invocation(s, "update", plugin_name) EXCEPT
                           !.bulk = (plugin_name = NoneStr), !.idx = 1,
                           !.pc = "next"])]
    /\ opsLeft' = opsLeft - 1
    /\ UnchangedWorld
    /\ UnchangedEnv

\* the loop of plugins_update calls update_plugin for the next name
update_plugin(s) ==
    /\ op[s].kind = "update" /\ op[s].pc = "next"
    /\ op' = [op EXCEPT ![s] = update_call(@)]
    /\ UNCHANGED opsLeft
    /\ UnchangedWorld
    /\ UnchangedEnv

\* download_plugin(plugin, force=True) up to the archive request
update_send(s) ==
    /\ op[s].kind = "update" /\ op[s].pc = "send"
    /\ LET d == download_begin(World, op[s].plugin, TRUE, cog)
       IN  /\ SetWorld(d.w)
           /\ op' = [op EXCEPT ![s] =
                  IF d.status = "await" THEN [@ EXCEPT !.pc = "http", !.gets = @ + 1]
                  ELSE propagate(@)]
    /\ UNCHANGED opsLeft
    /\ UnchangedEnv

\* the archive request answers: the rest of download_plugin, then
\* unload_extension (an ExtensionError is logged) and load_plugin
update_http(s, resp, ok) ==
    /\ op[s].kind = "update" /\ op[s].pc = "http"
    /\ LET d == download_end(World, op[s].plugin, resp, cog)
       IN  IF d.status = "raise"
           THEN /\ SetWorld(d.w)
                /\ op' = [op EXCEPT ![s] = propagate(@)]
           ELSE IF ~enable_plugins
           THEN /\ SetWorld(d.w)
                /\ op' = [op EXCEPT ![s] = report(@, "Updated")]
           ELSE LET u == unload_extension(d.w, op[s].plugin, cog)
                    l == load_begin(u.w, op[s].plugin, ok, cog)
                IN  /\ SetWorld(l.w)
                    /\ op' = [op EXCEPT ![s] =
                           update_loaded([@ EXCEPT !.unloaded = (u.status = "return")],
                                         l.status)]
    /\ UNCHANGED opsLeft
    /\ UnchangedEnv

\* the pip subprocess exits: the rest of load_plugin
update_pip(s, res, ok) ==
    /\ op[s].kind = "update" /\ op[s].pc = "pip"
    /\ LET l == load_end(World, op[s].plugin, res, ok, cog)
       IN  /\ SetWorld(l.w)
           /\ op' = [op EXCEPT ![s] = update_loaded(@, l.status)]
    /\ UNCHANGED opsLeft
    /\ UnchangedEnv

---------------------------------------------------------------------------
\* plugins_loaded / vplugins_loaded

\* without the test of the ready event
loaded_answer_ungated ==
    IF ~enable_plugins THEN "Disabled"
    ELSE IF loaded_plugins = {} THEN "NothingLoaded"
    ELSE "Listed"

\* the embed plugins_loaded sends
loaded_answer ==
    IF ~enable_plugins THEN "Disabled"
    ELSE IF ~ready THEN "StillLoading"
    ELSE IF loaded_plugins = {} THEN "NothingLoaded"
    ELSE "Listed"

plugins_loaded(s) ==
    /\ CanInvoke(s)
    /\ LET o == Invocation(s, "loaded", <<>>)
       IN  op' = [op EXCEPT ![s] =
               IF loaded_answer = "Listed"
               THEN Finish([o EXCEPT !.shown = loaded_plugins], "Listed")
               ELSE Finish(o, loaded_answer)]
    /\ opsLeft' = opsLeft - 1
    /\ UnchangedWorld
    /\ UnchangedEnv

Next ==
    \/ populate_registry
    \/ populate_vregistry
    \/ on_connect
    \/ initial_load_plugins
    \/ \E ok \in BOOLEAN : startup_entry(ok)
    \/ \E resp \in HttpResponses, ok \in BOOLEAN : startup_http(resp, ok)
    \/ \E res \in PipResults, ok \in BOOLEAN : startup_pip(res, ok)
    \/ startup_persist
    \/ \E s \in Slots, tok \in UserTokens : plugins_add(s, tok)
    \/ \E s \in Slots : add_send(s)
    \/ \E s \in Slots, resp \in HttpResponses : add_http(s, resp)
    \/ \E s \in Slots, ok \in BOOLEAN : add_persist(s, ok)
    \/ \E s \in Slots, res \in PipResults, ok \in BOOLEAN : add_pip(s, res, ok)
    \/ \E s \in Slots, tok \in UserTokens : plugins_remove(s, tok)
    \/ \E s \in Slots : remove_persist(s)
    \/ \E s \in Slots, tok \in UserTokens \cup {NoneStr} : plugins_update(s, tok)
    \/ \E s \in Slots : update_plugin(s)
    \/ \E s \in Slots : update_send(s)
    \/ \E s \in Slots, resp \in HttpResponses, ok \in BOOLEAN : update_http(s, resp, ok)
    \/ \E s \in Slots, res \in PipResults, ok \in BOOLEAN : update_pip(s, res, ok)
    \/ \E s \in Slots : plugins_loaded(s)

Spec == Init /\ [][Next]_vars

\* The startup pass, with commands invoked while the gate is closed; a
\* command gets beyond its first suspension only with the gate open.
StartupNext ==
    \/ populate_registry
    \/ populate_vregistry
    \/ on_connect
    \/ initial_load_plugins
    \/ \E ok \in BOOLEAN : startup_entry(ok)
    \/ \E resp \in HttpResponses, ok \in BOOLEAN : startup_http(resp, ok)
    \/ \E res \in PipResults, ok \in BOOLEAN : startup_pip(res, ok)
    \/ startup_persist
    \/ ~ready /\ \E s \in Slots, tok \in UserTokens : plugins_add(s, tok)
    \/ ~ready /\ \E s \in Slots, tok \in UserTokens : plugins_remove(s, tok)
    \/ ~ready /\ \E s \in Slots, tok \in UserTokens \cup {NoneStr} : plugins_update(s, tok)
    \/ ~ready /\ \E s \in Slots : update_plugin(s)
    \/ ~ready /\ \E s \in Slots : plugins_loaded(s)

\* The event loop runs a task that can run: the startup task is resumed when
\* its await returns or raises, and the archive request and the pip
\* subprocess it waits for do end (with an answer or with an error).
FairSpec ==
    /\ Init /\ [][StartupNext]_vars
    /\ WF_vars(initial_load_plugins)
    /\ WF_vars(\E ok \in BOOLEAN : startup_entry(ok))
    /\ WF_vars(\E resp \in HttpResponses, ok \in BOOLEAN : startup_http(resp, ok))
    /\ WF_vars(\E res \in PipResults, ok \in BOOLEAN : startup_pip(res, ok))

---------------------------------------------------------------------------
\* Plugin references by themselves: every reference the two ways of
\* parse_user_input can build, compared and parsed back from its string

TextAtoms == {"u", "/", "@"}

\* the texts of at most n atoms
RECURSIVE Texts(_)
Texts(n) ==
    IF n = 0 THEN {<<>>}
    ELSE LET T == Texts(n - 1)
         IN  T \cup {Append(t, a) : t \in {x \in T : Len(x) = n - 1},
                                    a \in TextAtoms}

\* parse_user_input, a name that is no registry key: Plugina.from_string
TextRefs == {from_string(t, FALSE) : t \in Texts(MaxLen)} \ {NoPlugin}

\* registry entries: a repository below the owner, one with a further "/"
RefRepositories == {<<"u", "/", "u">>, <<"u", "/", "u", "/", "u">>}
RefBranches == {NoneStr, <<"u">>}

\* parse_user_input, a registry key: the repository is split at its first
\* "/", the key is the name
ResolvedRefs ==
    { Plugina(split_repository(r)[1], split_repository(r)[2], <<"u">>, b) :
        r \in RefRepositories, b \in RefBranches }

RefInit ==
    /\ cog = "Plugin"
    /\ enable_plugins = FALSE
    /\ connected = FALSE
    /\ registry = RegEmpty
    /\ config = <<>>
    /\ persisted = <<>>
    /\ loaded_plugins = {}
    /\ extensions = {}
    /\ dirs = NoFiles
    /\ cache = NoFiles
    /\ ready = FALSE
    /\ st = [pc |-> "off", snap0 |-> <<>>, snap |-> <<>>, idx |-> 0,
             tok |-> <<>>, plugin |-> NoPlugin, gets |-> 0, attempted |-> {}]
    /\ op = [s \in Slots |-> IdleOp]
    /\ opsLeft = 0
    /\ solo = TRUE
    /\ ref \in {[NoRefs EXCEPT !.pc = "built", !.a = a] :
                    a \in TextRefs \cup ResolvedRefs}
               \cup {[NoRefs EXCEPT !.pc = "text", !.text = t] :
                        t \in Texts(MaxLen)}
    /\ call = NoCall

\* a == b and hash(a) == hash(b), for a reference b the registry gives
Plugina_compare(b) ==
    /\ ref.pc \in {"built", "compared"}
    /\ ref' = [ref EXCEPT !.pc = "compared", !.b = b,
                          !.eq = Plugina_eq(ref.a, b),
                          !.same_hash = (Plugina_hash(ref.a) = Plugina_hash(b))]
    /\ UnchangedWorld
    /\ UNCHANGED <<cog, enable_plugins, connected, registry, ready, st, solo,
                   op, opsLeft, call>>

\* Plugina.from_string(str(a), strict=True), as the startup pass reads an
\* entry of config["plugins"]
Plugina_reparse ==
    /\ ref.pc = "built"
    /\ ref' = [ref EXCEPT !.pc = "reparsed",
                          !.back = from_string(Plugina_str(ref.a), TRUE)]
    /\ UnchangedWorld
    /\ UNCHANGED <<cog, enable_plugins, connected, registry, ready, st, solo,
                   op, opsLeft, call>>

\* Plugina.from_string(text, strict=True) and Plugina.from_string(text): the
\* two grammars on one text
Plugina_parse ==
    /\ ref.pc = "text"
    /\ ref' = [ref EXCEPT !.pc = "parsed",
                          !.strict = from_string(ref.text, TRUE),
                          !.lenient = from_string(ref.text, FALSE)]
    /\ UnchangedWorld
    /\ UNCHANGED <<cog, enable_plugins, connected, registry, ready, st, solo,
                   op, opsLeft, call>>

RefNext ==
    \/ \E b \in ResolvedRefs : Plugina_compare(b)
    \/ Plugina_reparse
    \/ Plugina_parse

RefSpec == RefInit /\ [][RefNext]_vars

---------------------------------------------------------------------------
\* Install and Remove commands that overlap: the bot has started with no
\* plugin configured, and a second command may be invoked while the first
\* is suspended

ConcInit ==
    /\ cog \in {"Plugin", "vPlugins"}
    /\ enable_plugins = TRUE
    /\ connected = TRUE
    /\ registry = RegDoc
    /\ config = <<>>
    /\ persisted = <<>>
    /\ loaded_plugins = {}
    /\ extensions = {}
    /\ dirs = NoFiles
    /\ cache = NoFiles
    /\ ready = TRUE
    /\ st = [pc |-> "done", snap0 |-> <<>>, snap |-> <<>>, idx |-> 1,
             tok |-> <<>>, plugin |-> NoPlugin, gets |-> 0, attempted |-> {}]
    /\ op = [s \in Slots |-> IdleOp]
    /\ opsLeft = MaxOps
    /\ solo = FALSE
    /\ ref = NoRefs
    /\ call = NoCall

ConcNext ==
    \/ \E s \in Slots, tok \in UserTokens : plugins_add(s, tok)
    \/ \E s \in Slots : add_send(s)
    \/ \E s \in Slots, resp \in HttpResponses : add_http(s, resp)
    \/ \E s \in Slots, ok \in BOOLEAN : add_persist(s, ok)
    \/ \E s \in Slots, res \in PipResults, ok \in BOOLEAN : add_pip(s, res, ok)
    \/ \E s \in Slots, tok \in UserTokens : plugins_remove(s, tok)
    \/ \E s \in Slots : remove_persist(s)

ConcSpec == ConcInit /\ [][ConcNext]_vars

---------------------------------------------------------------------------
\* download_plugin and load_plugin called by themselves, with force or
\* without, on a disk where the install directory and the cache file may
\* have been deleted between two calls

\* calls of download_plugin and load_plugin in one behaviour
MaxCalls == 3

\* the plugins of the repository u/r
CallRefs == {from_string(TokP, TRUE), from_string(TokQ, TRUE)}

CallInit ==
    /\ cog \in {"Plugin", "vPlugins"}
    /\ enable_plugins = TRUE
    /\ connected = FALSE
    /\ registry = RegEmpty
    /\ config = <<>>
    /\ persisted = <<>>
    /\ loaded_plugins = {}
    /\ extensions = {}
    /\ dirs = NoFiles
    /\ cache = NoFiles
    /\ ready = FALSE
    /\ st = [pc |-> "wait", snap0 |-> <<>>, snap |-> <<>>, idx |-> 0,
             tok |-> <<>>, plugin |-> NoPlugin, gets |-> 0, attempted |-> {}]
    /\ op = [s \in Slots |-> IdleOp]
    /\ opsLeft = 0
    /\ solo = TRUE
    /\ ref = NoRefs
    /\ call = NoCall

\* the branch download_plugin takes: it returns at once ("present"), opens
\* the cache file ("cache") or asks for the archive ("get")
download_path(w, p, force, c) ==
    IF abs_path(p, c) \in DOMAIN w.dirs /\ ~force THEN "present"
    ELSE IF cache_path(p, c) \in DOMAIN w.cache /\ ~force THEN "cache"
    ELSE "get"

\* no call is suspended
CallOver == call.pc \in {"idle", "returned", "raised"}

\* the record of a call that begins
Called(fn, p, force) ==
    [NoCall EXCEPT !.fn = fn, !.plugin = p, !.force = force, !.n = call.n + 1,
                   !.prev = [fn |-> call.fn, plugin |-> call.plugin,
                             force |-> call.force, pc |-> call.pc,
                             path |-> call.path, gets |-> call.gets,
                             since |-> call.since]]

\* where a call is after a step that ended in status
call_pc(status, suspended) ==
    IF status = "await" THEN suspended
    ELSE IF status = "raise" THEN "raised"
    ELSE "returned"

UnchangedBot ==
    UNCHANGED <<cog, enable_plugins, connected, registry, ready, st, solo,
                ref, op, opsLeft>>

\* download_plugin(plugin, force) up to the archive request, or to its end
download_plugin(p, force) ==
    /\ CallOver /\ call.n < MaxCalls
    /\ LET d == download_begin(World, p, force, cog)
       IN  /\ SetWorld(d.w)
           /\ call' = [Called("download", p, force) EXCEPT
                          !.path = download_path(World, p, force, cog),
                          !.pc = call_pc(d.status, "http"),
                          !.gets = IF d.status = "await" THEN 1 ELSE 0]
    /\ UnchangedBot

\* the archive request answers: the rest of download_plugin
download_http(resp) ==
    /\ call.fn = "download" /\ call.pc = "http"
    /\ LET d == download_end(World, call.plugin, resp, cog)
       IN  /\ SetWorld(d.w)
           /\ call' = [call EXCEPT !.pc = call_pc(d.status, "http"),
                                   !.got = TRUE, !.resp = resp]
    /\ UnchangedBot

\* load_plugin(plugin) up to the pip subprocess, or to its end
load_plugin(p, ok) ==
    /\ CallOver /\ call.n < MaxCalls
    /\ LET l == load_begin(World, p, ok, cog)
       IN  /\ SetWorld(l.w)
           /\ call' = [Called("load", p, FALSE) EXCEPT
                          !.pc = call_pc(l.status, "pip")]
    /\ UnchangedBot

\* the pip subprocess exits: the rest of load_plugin
load_pip(res, ok) ==
    /\ call.fn = "load" /\ call.pc = "pip"
    /\ LET l == load_end(World, call.plugin, res, ok, cog)
       IN  /\ SetWorld(l.w)
           /\ call' = [call EXCEPT !.pc = call_pc(l.status, "pip"),
                                   !.ran = TRUE, !.res = res, !.ok = ok]
    /\ UnchangedBot

\* somebody deletes the cache file of the repository of p
unlink_cache(p) ==
    /\ CallOver
    /\ cache_path(p, cog) \in DOMAIN cache
    /\ cache' = Drop(cache, cache_path(p, cog))
    /\ call' = [call EXCEPT !.since = @ \cup {cache_path(p, cog)}]
    /\ UNCHANGED <<config, persisted, loaded_plugins, extensions, dirs>>
    /\ UnchangedBot

\* somebody deletes the install directory of p
rmtree_dir(p) ==
    /\ CallOver
    /\ abs_path(p, cog) \in DOMAIN dirs
    /\ dirs' = rmtree(dirs, abs_path(p, cog))
    /\ call' = [call EXCEPT !.since = @ \cup {abs_path(p, cog)}]
    /\ UNCHANGED <<config, persisted, loaded_plugins, extensions, cache>>
    /\ UnchangedBot

CallNext ==
    \/ \E p \in CallRefs, force \in BOOLEAN : download_plugin(p, force)
    \/ \E resp \in HttpResponses : download_http(resp)
    \/ \E p \in CallRefs, ok \in BOOLEAN : load_plugin(p, ok)
    \/ \E res \in PipResults, ok \in BOOLEAN : load_pip(res, ok)
    \/ \E p \in CallRefs : unlink_cache(p)
    \/ \E p \in CallRefs : rmtree_dir(p)

CallSpec == CallInit /\ [][CallNext]_vars

---------------------------------------------------------------------------
\* A plugin that bears the name of a cog of the bot: in config["plugins"]
\* at startup, or asked for by Install and Update

TokCogLegacy == <<"u", "/", "r", "/", "Modmail">>
TokCog == <<"u", "/", "r", "/", "Modmail", "@", "master">>

\* the repository holds the plugin Modmail
ArchCog == {FileEntry(<<ZipRoot, <<"Modmail">>, <<"Modmail", ".py">>>>)}

CogResponses ==
    {[ok |-> FALSE, body |-> NotAZip], [ok |-> TRUE, body |-> ZipBody(ArchCog)]}

CogInit ==
    /\ cog \in {"Plugin", "vPlugins"}
    /\ enable_plugins = TRUE
    /\ connected = FALSE
    /\ registry = RegEmpty
    /\ config \in {<<>>, <<TokCog>>, <<TokQ, TokCog>>}
    /\ persisted = config
    /\ loaded_plugins = {}
    /\ extensions = {}
    /\ dirs = NoFiles
    /\ cache = NoFiles
    /\ ready = FALSE
    /\ st = [pc |-> "wait", snap0 |-> <<>>, snap |-> <<>>, idx |-> 0,
             tok |-> <<>>, plugin |-> NoPlugin, gets |-> 0, attempted |-> {}]
    /\ op = [s \in Slots |-> IdleOp]
    /\ opsLeft = MaxOps
    /\ solo = TRUE
    /\ ref = NoRefs
    /\ call = NoCall

CogNext ==
    \/ on_connect
    \/ initial_load_plugins
    \/ \E ok \in BOOLEAN : startup_entry(ok)
    \/ \E resp \in CogResponses, ok \in BOOLEAN : startup_http(resp, ok)
    \/ startup_persist
    \/ \E s \in Slots : plugins_add(s, TokCogLegacy)
    \/ \E s \in Slots : plugins_update(s, TokCogLegacy)
    \/ \E s \in Slots : update_send(s)
    \/ \E s \in Slots, resp \in CogResponses, ok \in BOOLEAN : update_http(s, resp, ok)

CogSpec == CogInit /\ [][CogNext]_vars

---------------------------------------------------------------------------
\* The registry: its refresh by the startup tasks and the registry commands,
\* and the resolution of a name typed after "plugins ..." or "vplugins ..."

\* the document at the registry of the bot this one descends from
ModmailDoc == RegDoc

\* the document at the registry of this bot: its plugin "p" is in another
\* repository
VincyDoc ==
    [n \in {TokShortP} |-> RegEntry(<<"v", "/", "r">>, NoneStr, NoVersion)]

\* the functions that assign self.registry in the file of cog c
RefreshFunctions(c) ==
    IF c = "Plugin" THEN {"populate_registry", "populate_vregistry"}
    ELSE {"populate_registry"}

\* the URL function fn of cog c asks
registry_url(fn, c) ==
    IF fn = "populate_registry" /\ c = "Plugin" THEN "modmail" ELSE "vincy"

\* the command group a name is typed in, and the URL of its registry
CommandGroups(c) == IF c = "Plugin" THEN {"plugins", "vplugins"} ELSE {"vplugins"}
group_url(g) == IF g = "plugins" THEN "modmail" ELSE "vincy"

Served(url) == IF url = "modmail" THEN ModmailDoc ELSE VincyDoc

\* session.get(url) and json.loads(await resp.text()): a document, no
\* answer, or an answer that json.loads rejects
RegistryAnswers == {"json", "no answer", "not json"}

\* a refresh that failed empties the registry
registry_after_cleared(reg, answer, doc) ==
    IF answer = "json" THEN doc ELSE RegEmpty

\* self.registry = json.loads(await resp.text()): the assignment is reached
\* when neither the request nor json.loads has raised
registry_after(reg, answer, doc) ==
    IF answer = "json" THEN doc ELSE reg

RegInit ==
    /\ cog \in {"Plugin", "vPlugins"}
    /\ enable_plugins = TRUE
    /\ connected = TRUE
    /\ registry = RegEmpty
    /\ config = <<>>
    /\ persisted = <<>>
    /\ loaded_plugins = {}
    /\ extensions = {}
    /\ dirs = NoFiles
    /\ cache = NoFiles
    /\ ready = TRUE
    /\ st = [pc |-> "done", snap0 |-> <<>>, snap |-> <<>>, idx |-> 1,
             tok |-> <<>>, plugin |-> NoPlugin, gets |-> 0, attempted |-> {}]
    /\ op = [s \in Slots |-> IdleOp]
    /\ opsLeft = 0
    /\ solo = TRUE
    /\ ref = NoRefs
    /\ call = NoCall

\* populate_registry or populate_vregistry, as a startup task or awaited by
\* a registry command: an exception of the request or of json.loads leaves
\* the function before the assignment and reaches the caller
registry_refresh(fn, answer) ==
    /\ CallOver /\ call.n < MaxCalls
    /\ fn \in RefreshFunctions(cog)
    /\ registry' = registry_after(registry, answer, Served(registry_url(fn, cog)))
    /\ call' = [Called(fn, NoPlugin, FALSE) EXCEPT
                   !.pc = IF answer = "json" THEN "returned" ELSE "raised",
                   !.url = registry_url(fn, cog), !.answer = answer,
                   !.refreshed = IF answer = "json" THEN call.refreshed \cup {fn}
                                 ELSE call.refreshed]
    /\ UnchangedWorld
    /\ UNCHANGED <<cog, enable_plugins, connected, ready, st, solo, ref, op,
                   opsLeft>>

\* parse_user_input(plugin_name) of a command of group g
resolve_name(g, plugin_name) ==
    /\ CallOver /\ call.n < MaxCalls
    /\ g \in CommandGroups(cog)
    /\ LET r == parse_user_input(plugin_name, FALSE)
       IN  call' = [Called("parse_user_input", r.plugin, FALSE) EXCEPT
                       !.pc = IF r.status = "ok" THEN "returned" ELSE "raised",
                       !.url = group_url(g), !.name = plugin_name,
                       !.refreshed = call.refreshed]
    /\ UnchangedWorld
    /\ UNCHANGED <<cog, enable_plugins, connected, registry, ready, st, solo,
                   ref, op, opsLeft>>

RegNext ==
    \/ \E fn \in {"populate_registry", "populate_vregistry"},
          answer \in RegistryAnswers : registry_refresh(fn, answer)
    \/ \E g \in {"plugins", "vplugins"}, tok \in UserTokens : resolve_name(g, tok)

RegSpec == RegInit /\ [][RegNext]_vars

---------------------------------------------------------------------------
\* What the claims speak of

\* the command that takes slot s in this step is of kind k
Invoked(s, k) ==
    /\ opsLeft' = opsLeft - 1
    /\ op'[s].n = opsLeft
    /\ op'[s].kind = k

\* the loop of the startup pass has ended
PassCompleted == st.pc \in {"persist", "done"}

\* the gate was open when the update command in slot s called update_plugin
\* for the first time
UpdatedWithGateOpen(s) ==
    op[s].results = <<>> \/ op[s].results[1].out # "StillLoading"

\* C1: when "plugins update" without a name has ended, update_plugin was
\* called, and answered, for every entry of config["plugins"] in turn: a
\* failure for one entry did not keep the later entries from their update.
C1_BulkUpdateReachesEveryEntry ==
    \A s \in Slots :
        (/\ op[s].kind = "update" /\ op[s].bulk /\ op[s].pc = "done"
         /\ UpdatedWithGateOpen(s))
            => /\ Len(op[s].results) = Len(config)
               /\ \A i \in 1..Len(config) : op[s].results[i].tok = config[i]

\* C2: when an update has ended in a failure after its unload_extension
\* succeeded (so it is load_plugin that failed), the plugin is no longer in
\* the loaded set.
C2_FailedReloadLeavesUnloaded ==
    \A s \in Slots :
        (/\ op[s].kind = "update" /\ op[s].pc = "done"
         /\ op[s].out = "Error" /\ op[s].unloaded)
            => op[s].plugin \notin loaded_plugins

\* C3: in every state, the loaded set holds exactly the plugins whose
\* extension the host has loaded.
C3_LoadedIffUnitLoaded ==
    extensions = {ext_string(p, cog) : p \in loaded_plugins}

\* the same, looked at only while no command and no startup step is pending
C3_LoadedIffUnitLoadedAtRest ==
    (/\ st.pc \in {"off", "wait", "done"}
     /\ \A s \in Slots : op[s].pc \in {"idle", "done"})
        => C3_LoadedIffUnitLoaded

\* the command in slot s is a Remove that succeeded, and the command before
\* it was a successful Install of the same plugin
C4_Case(s) ==
    /\ op[s].kind = "remove" /\ op[s].pc = "done" /\ op[s].out = "Removed"
    /\ op[s].prev.kind = "add" /\ op[s].prev.plugin = op[s].plugin
    /\ op[s].prev.out \in {"Installed", "InstalledNotLoaded"}

\* C4: a Remove that succeeded right after a successful Install of the same
\* plugin leaves the plugin's string out of config["plugins"], the plugin out
\* of the loaded set, and no install directory.
C4_InstallThenRemove ==
    \A s \in Slots :
        C4_Case(s)
            => /\ Plugina_str(op[s].plugin) \notin Range(config)
               /\ op[s].plugin \notin loaded_plugins
               /\ abs_path(op[s].plugin, cog) \notin DOMAIN dirs

C4_Witness == \E s \in Slots : C4_Case(s)

\* the command in slot s is an Install, and the command before it was an
\* Install of the same plugin that got through its download
C5_Case(s) ==
    /\ op[s].kind = "add" /\ op[s].plugin # NoPlugin
    /\ op[s].prev.kind = "add" /\ op[s].prev.plugin = op[s].plugin
    /\ op[s].prev.out \in {"Installed", "InstalledNotLoaded", "LoadFailed"}

\* C5: an Install of a plugin right after an Install of the same plugin
\* that got through its download answers AlreadyInstalled, asks for no
\* archive, and config["plugins"] holds the plugin's string once.
C5_DuplicateRejected ==
    \A s \in Slots :
        C5_Case(s)
            => /\ op[s].pc = "done" /\ op[s].out = "AlreadyInstalled"
               /\ op[s].gets = 0
               /\ Count(config, Plugina_str(op[s].plugin)) = 1

C5_Witness == \E s \in Slots : C5_Case(s)

\* C6: with the gate open, an Install by a registry name whose bot_version
\* is above the bot's ends at once with VersionTooLow: no archive request,
\* and the configured list, the loaded set, the cache and the install
\* directories are as before.
C6_VersionGateOnInstall ==
    [][\A s \in Slots :
        (/\ Invoked(s, "add") /\ ready
         /\ op'[s].tok \in DOMAIN registry
         /\ registry[op'[s].tok].bot_version # NoVersion
         /\ version_lt(HostVersion, registry[op'[s].tok].bot_version))
            => /\ op'[s].pc = "done" /\ op'[s].out = "VersionTooLow"
               /\ op'[s].gets = 0
               /\ UNCHANGED <<config, persisted, loaded_plugins, extensions,
                              dirs, cache>>]_vars

C6_Witness ==
    \E s \in Slots : op[s].kind = "add" /\ op[s].out = "VersionTooLow"

\* the plugin a registry entry stands for
registry_ref(n) ==
    LET ur == split_repository(registry[n].repository)
    IN  Plugina(ur[1], ur[2], n, registry[n].branch)

\* the registry has an entry for the plugin that plugin_name names, and the
\* entry asks for a bot_version above the bot's
RegistryForbids(plugin_name) ==
    \E n \in DOMAIN registry :
        /\ registry[n].bot_version # NoVersion
        /\ version_lt(HostVersion, registry[n].bot_version)
        /\ n = plugin_name \/ from_string(plugin_name, FALSE) = registry_ref(n)

\* plugin_name names a plugin whose string is in config["plugins"]
NamesInstalled(plugin_name) ==
    \/ /\ plugin_name \in DOMAIN registry
       /\ Plugina_str(registry_ref(plugin_name)) \in Range(config)
    \/ /\ from_string(plugin_name, FALSE) # NoPlugin
       /\ Plugina_str(from_string(plugin_name, FALSE)) \in Range(config)

\* C7: with the gate open, every call of update_plugin (for a given name or
\* for an entry of config["plugins"]) for an installed plugin that has a
\* registry entry with a bot_version above the bot's answers VersionTooLow
\* and goes no further: no archive is asked for.
C7_UpdateRechecksVersion ==
    [][\A s \in Slots :
        (/\ ready
         /\ op'[s].kind = "update" /\ op'[s] # op[s]
         /\ Invoked(s, "update") \/ op[s].pc = "next"
         /\ Len(op'[s].results) > (IF Invoked(s, "update") THEN 0 ELSE Len(op[s].results))
                \/ op'[s].pc = "send"
         /\ RegistryForbids(op'[s].tok) /\ NamesInstalled(op'[s].tok))
            => /\ op'[s].pc # "send"
               /\ op'[s].results[Len(op'[s].results)].out = "VersionTooLow"]_vars

\* C8: with plugins enabled, "plugins loaded" answers StillLoading as long
\* as the startup pass has not completed, never an empty or a partial list;
\* with the gate open it answers NothingLoaded exactly when the loaded set
\* is empty, and lists the whole set otherwise.
C8_ListLoadedGate ==
    [][\A s \in Slots :
        (Invoked(s, "loaded") /\ enable_plugins)
            => /\ ~PassCompleted => op'[s].out = "StillLoading"
               /\ ready => /\ op'[s].out = "NothingLoaded" <=> loaded_plugins = {}
                           /\ op'[s].out \in {"NothingLoaded", "Listed"}
                           /\ op'[s].out = "Listed" => op'[s].shown = loaded_plugins]_vars

C8_Witness ==
    \E s \in Slots :
        /\ op[s].kind = "loaded" /\ op[s].out = "StillLoading"
        /\ enable_plugins /\ ~PassCompleted /\ loaded_plugins # {}

\* C9: while the gate is closed, a step of an Install, Remove or Update
\* changes neither the configured list (in memory or persisted), nor the
\* loaded set, the loaded extensions, the cache or the install directories,
\* asks for no archive, and every answer it gives is StillLoading.
C9_GateClosedFrame ==
    [][\A s \in Slots :
        (~ready /\ op'[s] # op[s] /\ op'[s].kind \in {"add", "remove", "update"})
            => /\ UNCHANGED <<config, persisted, loaded_plugins, extensions,
                              dirs, cache>>
               /\ op'[s].gets = 0
               /\ op'[s].pc \in {"next", "done"}
               /\ (op'[s].kind \in {"add", "remove"})
                      => op'[s].out = "StillLoading"
               /\ (op'[s].kind = "update")
                      => \A i \in DOMAIN op'[s].results :
                             op'[s].results[i].out = "StillLoading"]_vars

C9_Witness ==
    \E s \in Slots :
        /\ ~ready /\ st.pc \in {"http", "pip"}
        /\ op[s].kind \in {"add", "remove"} /\ op[s].out = "StillLoading"

\* an entry of the startup snapshot has been processed: parsed, and when a
\* grammar accepts it, download_plugin and load_plugin were called for it
Processed(name) ==
    from_string(name, FALSE) # NoPlugin => name \in st.attempted

\* C10: the gate is closed until the startup task runs, and it is open only
\* when every entry of the startup snapshot of config["plugins"] has been
\* processed.
C10_GateAfterWholePass ==
    /\ st.pc \in {"off", "wait"} => ~ready
    /\ ready => /\ PassCompleted
                /\ \A i \in DOMAIN st.snap0 : Processed(st.snap0[i])

\* C10, the part that holds: the gate opens only when the loop of the pass
\* has ended, and is never closed again
C10_GateOpensAtEndOfPass == ready <=> PassCompleted
C10_GateStaysOpen == [][ready => ready']_vars

---------------------------------------------------------------------------
\* C11: when plugins are enabled and the bot has connected, the gate is
\* eventually open, whatever the parse, download, pip and load steps of the
\* entries do.
C11_GateEventuallyOpens ==
    (enable_plugins /\ connected) ~> ready

\* the gate is open after a pass in which an entry was tried and not loaded
C11_Witness ==
    /\ ready /\ enable_plugins /\ connected
    /\ \E name \in st.attempted : from_string(name, FALSE) \notin loaded_plugins
\* plugin_name names a plugin that Install accepts: it resolves, is not in
\* config["plugins"] and is no cog's name
Installable(plugin_name) ==
    LET r == resolve(plugin_name, TRUE) IN
    /\ r.status = "ok"
    /\ Plugina_str(r.plugin) \notin Range(config)
    /\ r.plugin.name \notin BuiltinCogs

\* C12: with enable_plugins false, an Install of a valid plugin that is not
\* installed goes on to its download, and when its config.update() has
\* returned it ends with InstalledNotLoaded, the plugin's string in
\* config["plugins"], the install directory on disk and the plugin not in
\* the loaded set.
C12_InstallWithLoadingDisabled ==
    [][\A s \in Slots :
        /\ (Invoked(s, "add") /\ ~enable_plugins /\ Installable(op'[s].tok))
               => op'[s].pc = "send"
        /\ (/\ ~enable_plugins /\ op[s].kind = "add"
            /\ op[s].pc = "persist" /\ op'[s].pc # "persist")
               => /\ op'[s].out = "InstalledNotLoaded"
                  /\ Plugina_str(op[s].plugin) \in Range(config')
                  /\ abs_path(op[s].plugin, cog) \in DOMAIN dirs'
                  /\ op[s].plugin \notin loaded_plugins']_vars

\* what the code does instead: no Install ever ends with InstalledNotLoaded
C12_NeverInstalledNotLoaded ==
    \A s \in Slots : op[s].out # "InstalledNotLoaded"

C14_RetryAfterLoadFailed ==
    [][\A s \in Slots :
        (/\ Invoked(s, "add") /\ enable_plugins
         /\ op'[s].prev.kind = "add" /\ op'[s].prev.out = "LoadFailed"
         /\ op'[s].plugin = op'[s].prev.plugin)
            => /\ op'[s].gets = 0
               /\ op'[s].pc = "pip" \/ op'[s].out \in {"Installed", "LoadFailed"}]_vars

\* C15: an Install whose archive request does not bring an archive answers
\* DownloadFailed and changes neither config["plugins"] (in memory or
\* persisted) nor the loaded set; and config["plugins"] gets longer only in
\* the step of an Install whose request brought an archive.
C15_FailedFetchChangesNothing ==
    [][/\ \A s \in Slots :
            (/\ op[s].kind = "add" /\ op[s].pc \in {"send", "http"}
             /\ op'[s].pc \notin {"send", "http"}
             /\ ~op'[s].fetched)
                => /\ op'[s].pc = "done" /\ op'[s].out = "DownloadFailed"
                   /\ UNCHANGED <<config, persisted, loaded_plugins, extensions>>
       /\ Len(config') > Len(config)
            => \E s \in Slots :
                  /\ op[s].kind = "add" /\ op[s].pc = "http"
                  /\ op'[s].fetched
                  /\ config' = Append(config, Plugina_str(op[s].plugin))]_vars

\* an Install ended with DownloadFailed after a request that brought no
\* archive, while other plugins are installed and loaded
C15_Witness ==
    \E s \in Slots :
        /\ op[s].kind = "add" /\ op[s].out = "DownloadFailed" /\ op[s].gets = 1
        /\ ~op[s].fetched /\ loaded_plugins # {} /\ config # <<>>
\* name is an entry only the lenient grammar accepts (no "@branch")
LegacyOnly(name) ==
    from_string(name, TRUE) = NoPlugin /\ from_string(name, FALSE) # NoPlugin

\* the startup pass has ended and no command has been invoked since
AfterStartupPass == st.pc = "done" /\ opsLeft = MaxOps

\* name, an entry of the startup snapshot nobody but the lenient grammar
\* accepts, was migrated: it is gone, its canonical string is in
\* config["plugins"] and persisted, and download_plugin and load_plugin were
\* called for it
Migrated(name) ==
    LET str == Plugina_str(from_string(name, FALSE)) IN
    /\ name \notin Range(config) /\ name \notin Range(persisted)
    /\ str \in Range(config) /\ str \in Range(persisted)
    /\ name \in st.attempted

\* C16: after the startup pass, every entry of the startup snapshot that
\* only the lenient grammar accepts has been migrated, in plugin.py and in
\* vplugins.py.
C16_StartupMigration ==
    AfterStartupPass
        => \A i \in DOMAIN st.snap0 :
               LegacyOnly(st.snap0[i]) => Migrated(st.snap0[i])

\* C16 for vplugins.py alone, where it holds
C16_MigrationInVPlugins == cog = "vPlugins" => C16_StartupMigration

\* the startup pass left entry name as it should: gone when no grammar
\* accepts it; otherwise download_plugin and load_plugin were called for it
\* and its canonical string is in config["plugins"], loaded or not
PassedOver(name) ==
    LET lenient == from_string(name, FALSE) IN
    IF lenient = NoPlugin THEN name \notin Range(config)
    ELSE name \in st.attempted /\ Plugina_str(lenient) \in Range(config)

\* C17: the startup pass ends whatever the entries are, and after it every
\* entry of the startup snapshot that no grammar accepts is gone from
\* config["plugins"], while every entry that parses had its download_plugin
\* and load_plugin and is still configured, also when they failed.
C17_BadEntryDoesNotStopPass ==
    AfterStartupPass => \A i \in DOMAIN st.snap0 : PassedOver(st.snap0[i])

\* C17 for the entries the strict grammar accepts and those no grammar
\* accepts, where it holds in both files
C17_StrictAndBadEntries ==
    AfterStartupPass
        => \A i \in DOMAIN st.snap0 :
               ~LegacyOnly(st.snap0[i]) => PassedOver(st.snap0[i])

\* C18: a Remove of a plugin that is in config["plugins"] while its
\* extension is not loaded goes through: the string leaves
\* config["plugins"], the plugin is not in the loaded set, and when the
\* command ends the install directory is gone.
C18_RemoveNotLoaded ==
    [][\A s \in Slots :
        LET n == op'[s] IN
        /\ (/\ Invoked(s, "remove") /\ ready /\ n.plugin # NoPlugin
            /\ Plugina_str(n.plugin) \in Range(config)
            /\ ext_string(n.plugin, cog) \notin extensions)
               => /\ n.pc = "persist"
                  /\ Plugina_str(n.plugin) \notin Range(config')
                  /\ n.plugin \notin loaded_plugins'
        /\ (op[s].kind = "remove" /\ op[s].pc = "persist" /\ n.pc = "done")
               => /\ n.out = "Removed"
                  /\ Plugina_str(n.plugin) \notin Range(config')
                  /\ Plugina_str(n.plugin) \notin Range(persisted')
                  /\ abs_path(n.plugin, cog) \notin DOMAIN dirs']_vars

\* C18 for a plugin that is not in the loaded set when Remove is invoked
\* (never loaded), where it holds
C18_RemoveNeverLoaded ==
    [][\A s \in Slots :
        LET n == op'[s] IN
        (/\ Invoked(s, "remove") /\ ready /\ n.plugin # NoPlugin
         /\ Plugina_str(n.plugin) \in Range(config)
         /\ n.plugin \notin loaded_plugins)
            => /\ n.pc = "persist"
               /\ Plugina_str(n.plugin) \notin Range(config')
               /\ n.plugin \notin loaded_plugins'
               /\ extensions' = extensions]_vars
\* no field of p holds a "/" or an "@"
PlainFields(p) ==
    \A f \in {p.user, p.repo, p.name, p.branch} :
        \A i \in DOMAIN f : f[i] \notin {"/", "@"}

\* C19: two plugin references are equal exactly when their four fields are
\* equal, and equal references have equal hashes, for every reference a
\* text gives and every reference the registry gives.
C19_EqualIffFieldsEqual ==
    ref.pc = "compared"
        => /\ ref.eq <=> ref.a = ref.b
           /\ ref.eq => ref.same_hash

\* C19 for references whose fields hold neither "/" nor "@", where it holds
C19_PlainFieldsEqual ==
    (ref.pc = "compared" /\ PlainFields(ref.a) /\ PlainFields(ref.b))
        => /\ ref.eq <=> ref.a = ref.b
           /\ ref.eq => ref.same_hash

\* C20: the string of a plugin reference, parsed with the strict grammar,
\* gives a reference with the same four fields.
C20_StrRoundTrip == ref.pc = "reparsed" => ref.back = ref.a

\* C20 for references whose fields hold neither "/" nor "@", where it holds
C20_PlainFieldsRoundTrip ==
    (ref.pc = "reparsed" /\ PlainFields(ref.a)) => ref.back = ref.a

---------------------------------------------------------------------------
\* the parts of t between its "/" that are not empty
NonEmptyParts(t) ==
    Cardinality({i \in DOMAIN t : t[i] # "/" /\ (i = 1 \/ t[i - 1] = "/")})

\* t reads owner/repo/name: three parts that are not empty, two "/", no "@"
OwnerRepoName(t) ==
    /\ NonEmptyParts(t) = 3
    /\ Cardinality({i \in DOMAIN t : t[i] = "/"}) = 2
    /\ \A i \in DOMAIN t : t[i] # "@"

\* C21: a text with fewer than three non-empty parts between its "/" is
\* rejected by both grammars; a text owner/repo/name without "@branch" is
\* rejected by the strict grammar and accepted by the lenient one with
\* branch "master"; and whatever the strict grammar accepts, the lenient
\* grammar accepts with the same four fields.
C21_ParsingGrammars ==
    ref.pc = "parsed"
        => /\ NonEmptyParts(ref.text) < 3
                 => ref.strict = NoPlugin /\ ref.lenient = NoPlugin
           /\ OwnerRepoName(ref.text)
                 => /\ ref.strict = NoPlugin
                    /\ ref.lenient # NoPlugin /\ ref.lenient.branch = Master
           /\ ref.strict # NoPlugin => ref.lenient = ref.strict

\* C21 without its first part, where it holds
C21_LenientExtendsStrict ==
    ref.pc = "parsed"
        => /\ OwnerRepoName(ref.text)
                 => /\ ref.strict = NoPlugin
                    /\ ref.lenient # NoPlugin /\ ref.lenient.branch = Master
           /\ ref.strict # NoPlugin => ref.lenient = ref.strict

\* the first part of C21 for the texts in which no two "/" are neighbours
\* and none is at an end, where it holds
C21_ShortTextsRejected ==
    (/\ ref.pc = "parsed" /\ NonEmptyParts(ref.text) < 3
     /\ NonEmptyParts(ref.text)
            = Cardinality({i \in DOMAIN ref.text : ref.text[i] = "/"}) + 1)
        => ref.strict = NoPlugin /\ ref.lenient = NoPlugin

---------------------------------------------------------------------------
\* download_plugin is called in this step
DownloadCalled == call'.n = call.n + 1 /\ call'.fn = "download"

\* download_plugin is called without force in this step, for the plugin of
\* the call before, a download_plugin that returned after reading an archive
RefetchedAfterFetch ==
    /\ DownloadCalled /\ ~call'.force
    /\ call.fn = "download" /\ call.pc = "returned"
    /\ call.path \in {"get", "cache"}
    /\ call'.plugin = call.plugin

\* C24: after a download_plugin that succeeded, with the cache file deleted
\* since and the install directory left, download_plugin without force asks
\* for the archive, and the answer is written to the cache file again.
C24_CacheMissDownloadsAgain ==
    [][/\ (RefetchedAfterFetch /\ call.since = {cache_path(call.plugin, cog)})
            => call'.pc = "http" /\ call'.gets = 1
       /\ (call.pc = "http" /\ call'.got /\ call'.resp.ok)
            => cache_path(call.plugin, cog) \in DOMAIN cache']_vars

\* what the code does in the case of C24: the install directory is there,
\* so the call returns at once and the cache file stays deleted
C24_DirectoryPresentReturns ==
    [][(RefetchedAfterFetch /\ call.since = {cache_path(call.plugin, cog)})
            => /\ call'.pc = "returned" /\ call'.gets = 0
               /\ cache_path(call.plugin, cog) \notin DOMAIN cache']_vars

\* C25: after a download_plugin that succeeded, with the install directory
\* deleted since and the cache file left, download_plugin without force asks
\* for no archive, reads the cache file, and the install directory is there
\* again with the plugin's entries of the cached archive.
C25_CacheHitNoDownload ==
    [][(RefetchedAfterFetch /\ call.since = {abs_path(call.plugin, cog)})
            => /\ call'.path = "cache" /\ call'.gets = 0
               /\ call'.pc = "returned"
               /\ abs_path(call.plugin, cog) \in DOMAIN dirs'
               /\ dirs'[abs_path(call.plugin, cog)]
                     = { [rel |-> SubSeq(e.parts, 3, Len(e.parts)),
                          is_dir |-> e.is_dir] :
                           e \in {x \in cache[cache_path(call.plugin, cog)].entries :
                                     Len(x.parts) >= 3
                                         /\ x.parts[2] = call.plugin.name} }
               /\ cache' = cache]_vars

\* a call that read the cache file put the plugin's files back
C25_Witness ==
    /\ call.fn = "download" /\ call.path = "cache" /\ call.pc = "returned"
    /\ call.prev.fn = "download" /\ call.prev.plugin = call.plugin
    /\ call.prev.pc = "returned" /\ call.prev.gets = 1
    /\ call.prev.since = {abs_path(call.plugin, cog)}
    /\ dirs[abs_path(call.plugin, cog)] # {}

\* C26: of two download_plugin calls without force for one plugin, one right
\* after the other, the second returns at once: it asks for no archive and
\* leaves the install directories and the cache files as they are, so the
\* two ask for one archive at most.
C26_SecondFetchIsNoOp ==
    [][(/\ DownloadCalled /\ ~call'.force
        /\ call.fn = "download" /\ ~call.force /\ CallOver
        /\ call'.plugin = call.plugin /\ call.since = {})
            => /\ call'.pc = "returned" /\ call'.path = "present"
               /\ call'.gets = 0 /\ call.gets + call'.gets <= 1
               /\ dirs' = dirs /\ cache' = cache]_vars

\* a second call right after a first one that asked for the archive
C26_Witness ==
    /\ call.fn = "download" /\ ~call.force /\ call.pc = "returned"
    /\ call.gets = 0
    /\ call.prev.fn = "download" /\ ~call.prev.force
    /\ call.prev.plugin = call.plugin /\ call.prev.gets = 1
    /\ call.prev.since = {}

\* C27: download_plugin with force asks for the archive once, whether the
\* install directory and the cache file are there or not, never reads the
\* cache file, and writes the bytes of the answer to the cache file.
C27_ForceAlwaysDownloads ==
    [][/\ (DownloadCalled /\ call'.force)
            => call'.pc = "http" /\ call'.path = "get" /\ call'.gets = 1
       /\ (call.pc = "http" /\ call.force /\ call'.got)
            => /\ call'.gets = 1
               /\ call'.resp.ok
                     => /\ cache_path(call.plugin, cog) \in DOMAIN cache'
                        /\ cache'[cache_path(call.plugin, cog)] = call'.resp.body]_vars

\* a forced call, made with the install directory and the cache file in
\* place, has replaced the cached archive by another one
C27_Witness ==
    /\ call.fn = "download" /\ call.force /\ call.got /\ call.resp.ok
    /\ call.prev.fn = "download" /\ call.prev.plugin = call.plugin
    /\ call.prev.pc = "returned" /\ call.prev.gets = 1
    /\ call.prev.since = {}
    /\ cache[cache_path(call.plugin, cog)] = call.resp.body
    /\ call.resp.body = ZipBody(ArchNoEntry)

\* C28: when the archive has arrived, the install directory of the plugin
\* gets exactly the entries of at least three segments whose second segment
\* is the plugin's name, each without its first two segments; nothing of
\* another plugin or of a shorter entry is written, and no other install
\* directory changes.
C28_ExtractionScoped ==
    [][(call.pc = "http" /\ call'.got /\ call'.resp.ok /\ call'.resp.body.zip)
            => LET d == abs_path(call.plugin, cog)
                   own == {e \in call'.resp.body.entries :
                              Len(e.parts) >= 3 /\ e.parts[2] = call.plugin.name}
               IN  /\ DOMAIN dirs' = DOMAIN dirs
                   /\ \A x \in DOMAIN dirs \ {d} : dirs'[x] = dirs[x]
                   /\ \A e \in own :
                         [rel |-> SubSeq(e.parts, 3, Len(e.parts)),
                          is_dir |-> e.is_dir] \in dirs'[d]
                   /\ \A f \in dirs'[d] \ dirs[d] :
                         \E e \in own :
                            f = [rel |-> SubSeq(e.parts, 3, Len(e.parts)),
                                 is_dir |-> e.is_dir]]_vars

\* the files of p were taken from an archive that holds files of q and a
\* README below its root
C28_Witness ==
    /\ call.fn = "download" /\ call.got /\ call.pc = "returned"
    /\ call.resp.body = ZipBody(ArchReq)
    /\ call.plugin.name = <<"p">>
    /\ dirs[abs_path(call.plugin, cog)]
          = {[rel |-> <<<<"p", ".py">>>>, is_dir |-> FALSE],
             [rel |-> <<ReqTxt>>, is_dir |-> FALSE]}

\* C29: every cache file holds an archive that zipfile.ZipFile opens, so
\* that a download_plugin that reads the cache file does not fail on it.
C29_CacheNeverCorrupt ==
    /\ \A cp \in DOMAIN cache : cache[cp].zip
    /\ (call.fn = "download" /\ call.path = "cache") => call.pc # "raised"

\* C30: when the pip subprocess has exited with a code that is not zero,
\* with or without text on stderr, load_plugin raises, no extension is
\* loaded and the loaded set is as before; with exit code zero, text on
\* stderr does not keep a plugin that imports from being loaded.
C30_ExitCodeDecides ==
    [][(call.pc = "pip" /\ call'.ran)
            => /\ call'.res.returncode # 0
                     => /\ call'.pc = "raised"
                        /\ extensions' = extensions
                        /\ loaded_plugins' = loaded_plugins
               /\ (/\ call'.res.returncode = 0 /\ call'.ok
                   /\ ext_string(call.plugin, cog) \notin extensions)
                     => /\ call'.pc = "returned"
                        /\ call.plugin \in loaded_plugins']_vars

\* what plugin.py does instead: text on stderr decides, the exit code is
\* not looked at
C30_StderrDecides ==
    [][(call.pc = "pip" /\ call'.ran)
            => /\ call'.res.stderr
                     => /\ call'.pc = "raised"
                        /\ extensions' = extensions
                        /\ loaded_plugins' = loaded_plugins
               /\ (/\ ~call'.res.stderr /\ call'.ok /\ cog = "Plugin"
                   /\ ext_string(call.plugin, cog) \notin extensions)
                     => /\ call'.pc = "returned"
                        /\ call.plugin \in loaded_plugins']_vars

---------------------------------------------------------------------------
\* the commands in the two slots are the only two that were invoked
OnlyTwoCommands ==
    \A s \in Slots : op[s].kind # "none" /\ op[s].prev.kind = "none"

\* two Installs of different plugins, both beyond their download, have ended
C22_Case ==
    /\ OnlyTwoCommands
    /\ \A s \in Slots : op[s].kind = "add" /\ op[s].pc = "done" /\ op[s].fetched
    /\ op["s1"].plugin # op["s2"].plugin

\* C22: when two Installs of different plugins have ended, however their
\* steps were interleaved, the string of each is in config["plugins"] once,
\* in memory and persisted, and each plugin is in the loaded set, and its
\* extension loaded, exactly when its own Install ended with Installed.
C22_DistinctInstallsIndependent ==
    C22_Case
        => \A s \in Slots :
              /\ Count(config, Plugina_str(op[s].plugin)) = 1
              /\ Count(persisted, Plugina_str(op[s].plugin)) = 1
              /\ op[s].plugin \in loaded_plugins <=> op[s].out = "Installed"
              /\ ext_string(op[s].plugin, cog) \in extensions
                    <=> op[s].out = "Installed"
              /\ abs_path(op[s].plugin, cog) \in DOMAIN dirs

\* the Install that was invoked first got its archive last, and one of the
\* two plugins was loaded while the other was not
C22_Witness ==
    /\ C22_Case
    /\ \E s, t \in Slots :
          /\ op[s].n > op[t].n
          /\ config = <<Plugina_str(op[t].plugin), Plugina_str(op[s].plugin)>>
          /\ op[s].out = "Installed" /\ op[t].out = "LoadFailed"

\* C23: nothing holds back a Remove of a plugin whose Install is suspended
\* between its config.update() and the end of load_plugin: the Remove takes
\* the string out of config["plugins"] and the Install goes on; and when
\* the Install has loaded the plugin while the Remove was suspended, the
\* Remove ends with the plugin in the loaded set, its string out of
\* config["plugins"] and its install directory deleted.
C23_SameRefHazard ==
    [][\A s, t \in Slots :
        (/\ s # t /\ op[s].kind = "add" /\ op[s].prev.kind = "none"
         /\ op'[t].prev.kind = "none"
         /\ op'[t].kind = "remove" /\ op'[t].plugin = op[s].plugin)
            => /\ (Invoked(t, "remove") /\ op[s].pc \in {"persist", "pip"})
                     => /\ op'[t].pc = "persist"
                        /\ Plugina_str(op[s].plugin) \notin Range(config')
                        /\ op'[s] = op[s]
               /\ (/\ op[t].pc = "persist" /\ op'[t].pc = "done"
                   /\ op[s].out = "Installed"
                   /\ op[s].plugin \in loaded_plugins)
                     => /\ op[s].plugin \in loaded_plugins'
                        /\ ext_string(op[s].plugin, cog) \in extensions'
                        /\ Plugina_str(op[s].plugin) \notin Range(config')
                        /\ Plugina_str(op[s].plugin) \notin Range(persisted')
                        /\ abs_path(op[s].plugin, cog) \notin DOMAIN dirs']_vars

\* an Install answered Installed and a Remove of the same plugin answered
\* Removed; the plugin is loaded, not configured, and has no directory
C23_Witness ==
    \E s, t \in Slots :
        /\ OnlyTwoCommands
        /\ op[s].kind = "add" /\ op[s].pc = "done" /\ op[s].out = "Installed"
        /\ op[t].kind = "remove" /\ op[t].pc = "done" /\ op[t].out = "Removed"
        /\ op[t].plugin = op[s].plugin
        /\ op[s].plugin \in loaded_plugins
        /\ Plugina_str(op[s].plugin) \notin Range(config)
        /\ abs_path(op[s].plugin, cog) \notin DOMAIN dirs

---------------------------------------------------------------------------
\* C31: when the pip subprocess has succeeded (exit code zero, nothing on
\* stderr), whatever becomes of the step that puts USER_SITE on sys.path,
\* load_plugin goes on to load_extension: a plugin that imports, and is not
\* loaded yet, is loaded and in the loaded set, in plugin.py and in
\* vplugins.py.
C31_UserSiteBestEffort ==
    [][(/\ call.pc = "pip" /\ call'.ran
        /\ call'.res.returncode = 0 /\ ~call'.res.stderr
        /\ call'.ok /\ ext_string(call.plugin, cog) \notin extensions)
            => /\ call'.pc = "returned"
               /\ call.plugin \in loaded_plugins'
               /\ ext_string(call.plugin, cog) \in extensions']_vars

\* C31 for plugin.py alone, where it holds
C31_UserSiteInPlugin ==
    [][cog = "Plugin" =>
        ((/\ call.pc = "pip" /\ call'.ran
          /\ call'.res.returncode = 0 /\ ~call'.res.stderr
          /\ call'.ok /\ ext_string(call.plugin, cog) \notin extensions)
            => /\ call'.pc = "returned"
               /\ call.plugin \in loaded_plugins')]_vars

\* a step of load_plugin: its call, or the exit of its pip subprocess
LoadStep ==
    \/ call'.n = call.n + 1 /\ call'.fn = "load"
    \/ call.fn = "load" /\ call.pc = "pip" /\ call'.ran

\* C32: a load_plugin that raises leaves the loaded set and the loaded
\* extensions as they were; the loaded set changes only in the step in
\* which load_extension returns, by the plugin of the call; and without the
\* entry file load_plugin raises at once, before pip and load_extension.
C32_FailedLoadChangesNothing ==
    [][/\ (LoadStep /\ call'.pc = "raised")
            => loaded_plugins' = loaded_plugins /\ extensions' = extensions
       /\ (LoadStep /\ call'.pc = "pip")
            => loaded_plugins' = loaded_plugins /\ extensions' = extensions
       /\ loaded_plugins' # loaded_plugins
            => /\ LoadStep /\ call'.pc = "returned"
               /\ loaded_plugins' = loaded_plugins \cup {call'.plugin}
               /\ extensions' = extensions \cup {ext_string(call'.plugin, cog)}
       /\ (/\ call'.n = call.n + 1 /\ call'.fn = "load"
           /\ ~path_exists(World, abs_path(call'.plugin, cog),
                           <<call'.plugin.name \o <<".py">>>>))
            => /\ call'.pc = "raised" /\ ~call'.ran
               /\ extensions' = extensions]_vars

\* load_extension raised in a load_plugin whose pip subprocess had succeeded
C32_Witness ==
    /\ call.fn = "load" /\ call.pc = "raised" /\ call.ran
    /\ ~call.res.stderr /\ cog = "Plugin"
    /\ call.plugin \notin loaded_plugins

\* the archives an archive request may bring
Archives == {r.body.entries : r \in {x \in HttpResponses : x.ok /\ x.body.zip}}

\* C37: when download_plugin returns without an error, the install
\* directory holds the plugin's entries of an archive; a call that follows
\* a failed one does not return over an empty directory.
C37_ReturnMeansInstalled ==
    [][(/\ call'.fn = "download" /\ call'.pc = "returned"
        /\ call.pc # "returned" \/ call'.n = call.n + 1)
            => /\ abs_path(call'.plugin, cog) \in DOMAIN dirs'
               /\ \E a \in Archives :
                     /\ Extracted(a, call'.plugin) # {}
                     /\ Extracted(a, call'.plugin)
                           \subseteq dirs'[abs_path(call'.plugin, cog)]]_vars

\* C37 for a download_plugin that got as far as reading an archive, where
\* it holds
C37_ReadArchiveMeansInstalled ==
    [][(/\ call'.fn = "download" /\ call'.pc = "returned"
        /\ call.pc # "returned" \/ call'.n = call.n + 1
        /\ call'.path # "present")
            => /\ abs_path(call'.plugin, cog) \in DOMAIN dirs'
               /\ \E a \in Archives :
                     Extracted(a, call'.plugin)
                         \subseteq dirs'[abs_path(call'.plugin, cog)]]_vars

\* C38: when a forced download_plugin has returned, the install directory
\* holds the plugin's entries of the archive that came, and nothing else:
\* no file of the version installed before stays.
C38_ForcedFetchReplacesFiles ==
    [][(/\ call.fn = "download" /\ call.force /\ call.pc = "http"
        /\ call'.pc = "returned")
            => dirs'[abs_path(call.plugin, cog)]
                  = { [rel |-> SubSeq(e.parts, 3, Len(e.parts)),
                       is_dir |-> e.is_dir] :
                        e \in {x \in call'.resp.body.entries :
                                  Len(x.parts) >= 3
                                      /\ x.parts[2] = call.plugin.name} }]_vars

\* C38 on a directory that a deletion or a first download left empty,
\* where it holds
C38_FirstFetchFiles ==
    [][(/\ call.fn = "download" /\ call.force /\ call.pc = "http"
        /\ call'.pc = "returned"
        /\ dirs[abs_path(call.plugin, cog)] = {})
            => dirs'[abs_path(call.plugin, cog)]
                  = Extracted(call'.resp.body.entries, call.plugin)]_vars

---------------------------------------------------------------------------
\* C35: in every state, whatever the commands and however they overlap, no
\* string is in config["plugins"] more than once.
C35_NoDuplicateEntries ==
    \A i, j \in DOMAIN config : config[i] = config[j] => i = j

\* C35 while no two Installs of one plugin are in flight together, where
\* it holds
C35_NoDuplicateUnlessOverlap ==
    (\A i, j \in DOMAIN config : config[i] = config[j] => i = j)
        \/ /\ \A s \in Slots : op[s].kind = "add"
           /\ op["s1"].plugin = op["s2"].plugin

\* no command and no step of the startup pass is suspended
AtRest ==
    /\ st.pc \in {"off", "wait", "done"}
    /\ \A s \in Slots : op[s].pc \in {"idle", "done"}

\* C36: with the gate open and no command in flight, every plugin in the
\* loaded set has its string in config["plugins"]; so after a Remove that
\* succeeded the plugin is in neither, whatever came before it.
C36_LoadedImpliesConfigured ==
    (ready /\ AtRest)
        => /\ \A p \in loaded_plugins : Plugina_str(p) \in Range(config)
           /\ \A s \in Slots :
                 (op[s].kind = "remove" /\ op[s].out = "Removed")
                     => /\ op[s].plugin \notin loaded_plugins
                        /\ Plugina_str(op[s].plugin) \notin Range(config)

\* C36 as long as no update has ended in an error, where it holds
C36_UnlessUpdateFailed ==
    (/\ ready /\ AtRest
     /\ \A s \in Slots :
           /\ ~(op[s].kind = "update" /\ op[s].out = "Error")
           /\ ~(op[s].prev.kind = "update" /\ op[s].prev.out = "Error"))
        => \A p \in loaded_plugins : Plugina_str(p) \in Range(config)

---------------------------------------------------------------------------
\* C33: no plugin that bears the name of a cog of the bot gets into the
\* loaded set, be it by Install, by the reload of Update or by the startup
\* pass; and an Install of such a plugin that is not installed answers
\* NameCollision at once, asks for no archive, and leaves config["plugins"]
\* as it is.
C33_NameCollisionOnEveryPath ==
    [][/\ \A p \in loaded_plugins' \ loaded_plugins : p.name \notin BuiltinCogs
       /\ \A s \in Slots :
             (/\ Invoked(s, "add") /\ ready
              /\ op'[s].plugin.name \in BuiltinCogs
              /\ Plugina_str(op'[s].plugin) \notin Range(config))
                => /\ op'[s].pc = "done" /\ op'[s].out = "NameCollision"
                   /\ op'[s].gets = 0
                   /\ config' = config /\ persisted' = persisted]_vars

\* C33 for Install alone, where it holds
C33_InstallRejectsCollision ==
    [][\A s \in Slots :
        (/\ Invoked(s, "add") /\ ready
         /\ op'[s].plugin.name \in BuiltinCogs
         /\ Plugina_str(op'[s].plugin) \notin Range(config))
            => /\ op'[s].pc = "done" /\ op'[s].out = "NameCollision"
               /\ op'[s].gets = 0
               /\ config' = config /\ persisted' = persisted
               /\ loaded_plugins' = loaded_plugins]_vars

---------------------------------------------------------------------------
\* a refresh of the registry is made in this step
Refreshed ==
    /\ call'.n = call.n + 1
    /\ call'.fn \in {"populate_registry", "populate_vregistry"}

\* the plugin the entry of name n in the document doc stands for
doc_ref(doc, n) ==
    Plugina(split_repository(doc[n].repository)[1],
            split_repository(doc[n].repository)[2], n, doc[n].branch)

\* C34: a refresh assigns the registry, as a whole, only when the request
\* was answered and json.loads accepted the answer; when one of them fails
\* the exception reaches the caller and the registry is as before, so that
\* a name resolved afterwards is looked up in the registry from before the
\* refresh.
C34_FailedRefreshKeepsRegistry ==
    [][/\ (Refreshed /\ call'.answer # "json")
            => registry' = registry /\ call'.pc = "raised"
       /\ (Refreshed /\ call'.answer = "json")
            => registry' = Served(call'.url) /\ call'.pc = "returned"
       /\ registry' # registry => Refreshed /\ call'.answer = "json"
       /\ (/\ call'.n = call.n + 1 /\ call'.fn = "parse_user_input"
           /\ call'.name \in DOMAIN registry)
            => /\ call'.pc = "returned"
               /\ call'.plugin = doc_ref(registry, call'.name)]_vars

\* a name was resolved from the registry of the bot it descends from,
\* right after a refresh that failed
C34_Witness ==
    /\ call.fn = "parse_user_input" /\ call.name = TokShortQ
    /\ call.prev.fn = "populate_vregistry" /\ call.prev.pc = "raised"
    /\ registry = ModmailDoc
    /\ call.plugin = doc_ref(ModmailDoc, TokShortQ)

\* C39: in plugin.py, once both refresh functions have returned, a name
\* typed in a command group that its registry knows resolves to the plugin
\* of that registry's document, whichever of the two refreshes came last.
C39_ResolutionIgnoresScheduling ==
    (/\ cog = "Plugin" /\ call.fn = "parse_user_input"
     /\ call.refreshed = {"populate_registry", "populate_vregistry"}
     /\ call.name \in DOMAIN Served(call.url))
        => /\ call.pc = "returned"
           /\ call.plugin = doc_ref(Served(call.url), call.name)

\* what plugin.py does: the document assigned last, by either function, is
\* the one every name is looked up in
C39_LastRefreshDecides ==
    (call.fn = "parse_user_input" /\ call.name \in DOMAIN registry)
        => call.plugin = doc_ref(registry, call.name)

\* C39 in vplugins.py, which has one registry, where it holds
C39_OneRegistryInVPlugins ==
    (/\ cog = "vPlugins" /\ call.fn = "parse_user_input"
     /\ call.refreshed = {"populate_registry"}
     /\ call.name \in DOMAIN Served(call.url))
        => /\ call.pc = "returned"
           /\ call.plugin = doc_ref(Served(call.url), call.name)

====
